---- MODULE Spec2Model ----
(***************************************************************************)
(* Document ingestion of the Ask screen: AskScreen hosts the hidden        *)
(* PDFExtractor (PDF.js in a WebView) and, when that yields no usable      *)
(* text, the hidden PDFOCRFallback (render a page, capture it, recognize   *)
(* it, advance).  The model follows the components' React state, their     *)
(* refs, their pending timers and the positions of their async handlers.   *)
(***************************************************************************)
EXTENDS Integers, Sequences, FiniteSets, TLC

(***************************************************************************)
(* Bounds of the model                                                     *)
(***************************************************************************)
\* pages of a picked PDF: 1..MaxDocPages
MaxDocPages == 2
\* the maxPages prop of PDFOCRFallback is drawn from 0..MaxCap
MaxCap == 2
\* ingestions started in one run of the screen
MaxIngest == 2
\* page-changed events the renderer repeats for a page it already reported
MaxDupEvents == 1
\* WebView events (messages, errors) delivered to one PDFExtractor
MaxWebEvents == 2
\* questions submitted in one run of the screen
MaxQuestions == 2
\* chunks of a document index
MaxChunks == 3
\* distinct terms of the vocabulary
MaxTerms == 2
\* occurrences of one term in one chunk
MaxTf == 2
\* the k of a retrieve
MaxK == 2

(***************************************************************************)
(* Program constants                                                       *)
(***************************************************************************)
\* result.text.length > 50, combinedText.length > 50
MinUsableChars == 50
\* length of "--- Page " + " ---" + "\n" around the page number
MarkerOverhead == 14
\* length of the '\n\n' separator of join
JoinSepLen == 2
\* pastedText.length < 50
PasteMinChars == 50
\* ocrResult.text.length < 30
CameraMinChars == 30

(***************************************************************************)
(* Values                                                                  *)
(***************************************************************************)
\* text lengths a structured extraction reports
TextLens == {0, 49, 50, 51}

\* a recognized page: its length and whether pageText.trim() is empty; alone on
\* page 1, a text of 35 characters makes an entry of 50 and one of 36 makes 51
PageTexts == { [len |-> 3,  blank |-> TRUE],
               [len |-> 35, blank |-> FALSE],
               [len |-> 36, blank |-> FALSE] }

Min(a, b) == IF a < b THEN a ELSE b

\* number of decimal digits of a page number
Digits(n) == IF n < 10 THEN 1 ELSE IF n < 100 THEN 2 ELSE 3

\* `--- Page ${currentPage} ---\n${pageText}`
EntryLen(e) == MarkerOverhead + Digits(e.page) + e.len

RECURSIVE SumEntryLen(_)
SumEntryLen(s) == IF s = <<>> THEN 0 ELSE EntryLen(Head(s)) + SumEntryLen(Tail(s))

\* extractedTextsRef.current.join('\n\n').length
CombinedLen(texts) ==
    IF texts = <<>> THEN 0
    ELSE SumEntryLen(texts) + JoinSepLen * (Len(texts) - 1)

\* variant of FinishResult: >= in place of >
FinishResult_AtLeast(total, cap, texts) ==
    LET success == CombinedLen(texts) >= MinUsableChars
    IN  [ success   |-> success,
          text      |-> texts,
          len       |-> CombinedLen(texts),
          pageCount |-> Min(total, cap),
          error     |-> ~success ]

\* the result finishExtraction passes to onComplete
FinishResult(total, cap, texts) ==
    LET success == CombinedLen(texts) > MinUsableChars
    IN  [ success   |-> success,
          text      |-> texts,
          len       |-> CombinedLen(texts),
          pageCount |-> Min(total, cap),
          error     |-> ~success ]

\* the result handleError of PDFOCRFallback passes to onComplete
RenderErrorResult ==
    [ success |-> FALSE, text |-> <<>>, len |-> 0, pageCount |-> 0, error |-> TRUE ]

\* the result PDFExtractor builds for a fault
FaultResult == [ success |-> FALSE, len |-> 0, charCount |-> 0, error |-> TRUE ]

\* results a parseable WebView message carries
ParsedResults ==
    { [ success |-> s, len |-> l, charCount |-> l, error |-> ~s ] :
          s \in BOOLEAN, l \in TextLens }

\* WebView messages: parseExtractionResult either returns a result or throws
WebMessages ==
    { [ parses |-> TRUE, result |-> r ] : r \in ParsedResults }
        \cup { [ parses |-> FALSE, result |-> FaultResult ] }

\* text lengths the recognition of a camera photo reports
CameraLens == {29, 30, 50}

\* what the user may have pasted: its length, and whether pastedText.trim() is empty
PastedTexts == { [len |-> 49, blank |-> FALSE],
                 [len |-> 50, blank |-> FALSE],
                 [len |-> 50, blank |-> TRUE] }

\* needsOCRFallback(result) of SmartPDFPipeline
needsOCRFallback(result) == ~result.success \/ result.len < MinUsableChars


(***************************************************************************)
(* State                                                                   *)
(***************************************************************************)
VARIABLES
    \* AskScreen (useState)
    processing,        \* processing
    activeDoc,         \* activeDoc: 0 is null, otherwise the id of the document
    messages,          \* messages: the ids of the messages, in order
    pdfBase64,         \* pdfBase64 is non-null: PDFExtractor is mounted
    pendingPdfName,    \* pendingPdfName: 0 is "", otherwise the picked file
    pendingPdfUri,     \* pendingPdfUri: 0 is "", otherwise the picked file
    extractionStatus,  \* extractionStatus
    ragProgress,       \* ragProgress is non-null
    useOCRFallback,    \* useOCRFallback
    lastAlert,         \* title of the last Alert.alert, "" when none was shown
    \* positions of AskScreen's async handlers
    pickPc,            \* handlePickDocument: "idle", "picking", "reading"
    indexPc,           \* handlePDFJSExtraction / handleOCRComplete at their awaits
    ingest,            \* ingestions started so far
    docPages,          \* number of pages of the picked PDF
    \* PDFExtractor instance
    ext,
    \* PDFOCRFallback instance, the renderer below it and its timers
    ocr,
    zombies,           \* processCurrentPage invocations of unmounted instances
    \* history of the current ingestion
    extracted,         \* results PDFExtractor passed to onExtracted
    faults,            \* faults met on the structured path and what became of them
    pageLog,           \* capture calls of the mounted PDFOCRFallback, in order
    completions,       \* results the mounted PDFOCRFallback passed to onComplete
    \* the screen and its conversation
    screen,            \* "ask": AskScreen, "qa": PDFQAScreen
    isTextModelReady,  \* isTextModelReady of useAI
    isProcessing,      \* state.ai.isProcessing of the store
    inputText,         \* inputText: 0 is "", otherwise the question typed
    sends,             \* submissions handleSend has accepted
    calls,             \* calls of the answering service
    pending,           \* questions whose answer is awaited
    delivered,         \* answers that arrived: the question, its document, the document then active
    sendAlerts,        \* "Error" alerts on display that offer "Try Again"
    indexed,           \* ids of the documents createFromText has resolved for
    \* PDFQAScreen (useState)
    showPasteMode,     \* showPasteMode
    pastedText,        \* pastedText
    \* Retriever
    docIndex,          \* the DocumentIndex: per chunk, in ordinal order, its term frequencies
    query,             \* the question (its terms) and k of the last retrieve
    retrieved,         \* the RetrievalResult of the last retrieve
    \* Indexer, Answer Composer
    indexer,           \* build(chunks): its progress and the postings built so far
    composed,          \* what answer(question, retrieval, documentId) returned last
    \* ApiMiddleware, apiService
    api                \* FORCE_MOCK_MODE, the invocation under way and those completed

screenVars == <<processing, activeDoc, messages, pendingPdfName, pendingPdfUri,
                ragProgress, lastAlert>>
pickVars   == <<pickPc, ingest, docPages>>
extHist    == <<extracted, faults>>
ocrHist    == <<pageLog, completions>>
ocrSide    == <<ocr, zombies, pageLog, completions>>

dialogVars == <<screen, isTextModelReady, isProcessing, inputText, sends, calls,
                pending, delivered, sendAlerts,
                showPasteMode, pastedText>>
\* isLoading of useAI; the loading flags of the three models are left out
isLoading == isProcessing

retrievalVars == <<docIndex, query, retrieved>>
serviceVars == <<indexer, composed, api>>
chatVars   == <<dialogVars, indexed, retrievalVars, serviceVars>>

vars == <<processing, activeDoc, messages, pdfBase64, pendingPdfName, pendingPdfUri,
          extractionStatus, ragProgress, useOCRFallback, lastAlert, pickPc, indexPc,
          ingest, docPages, ext, ocr, zombies, extracted, faults, pageLog, completions,
          screen, isTextModelReady, isProcessing, inputText, sends, calls, pending, delivered,
          sendAlerts,
          indexed, showPasteMode, pastedText, docIndex, query, retrieved,
          indexer, composed, api>>

\* the message setMessages([...]) starts a conversation with
SystemMessage == [ role |-> "system", q |-> 0 ]

\* pastedText before anything is pasted
NoPaste == [ len |-> 0, blank |-> TRUE ]

NoIndexing == [ pc |-> "none", len |-> 0, pageCount |-> 0 ]

\* PDFExtractor: html is "none" while unmounted, "mounted" before the effect ran,
\* then "loading" (loading = true), "ready" (html set) or "failed" (loadError set)
ExtUnmounted == [ html |-> "none", hasExtracted |-> FALSE, events |-> 0 ]

NoFaults == [ events |-> 0, converted |-> 0, uncaught |-> FALSE ]

\* PDFOCRFallback before it is mounted, and every useState / useRef initial value
OCRUnmounted ==
    [ mounted        |-> FALSE,
      maxPages       |-> 0,
      currentPage    |-> 1,
      totalPages     |-> 0,
      processing     |-> FALSE,
      pageReady      |-> FALSE,
      hasCompleted   |-> FALSE,
      extractedTexts |-> <<>>,
      effectPending  |-> FALSE,     \* the effect is due: one of its deps changed
      procPc         |-> "idle",    \* processCurrentPage: "idle", or the await it is
                                    \* at: "waiting", "capturing", "captured"
      procPage       |-> 0,         \* currentPage in the closure of that invocation
      procTotal      |-> 0,         \* totalPages in the closure of that invocation
      inFlight       |-> 0,         \* invocations of processCurrentPage not yet finished
      timers         |-> 0,         \* pending setTimeout(() => setPageReady(true), 300)
      shown          |-> 0,         \* page the renderer has reported, 0 before the first
      loaded         |-> FALSE,     \* onLoadComplete was delivered
      dups           |-> 0 ]

\* <PDFOCRFallback pdfUri=... maxPages=.../> mounted; its first effect run returns
\* at once because pageReady is false
NewOCR(cap) == [ OCRUnmounted EXCEPT !.mounted = TRUE, !.maxPages = cap ]

\* variant of OCRMountedBy: || in place of the first &&
OCRMountedBy_Or(flag, uri) == flag \/ uri # 0

\* {useOCRFallback && pendingPdfUri && (<PDFOCRFallback .../>)}
OCRMountedBy(flag, uri) == flag /\ uri # 0

\* the state after the screen s was mounted
InitScreen(s) ==
    /\ screen = s
    /\ isTextModelReady = FALSE
    /\ isProcessing = FALSE
    /\ inputText = 0
    /\ sends = 0
    /\ calls = 0
    /\ pending = {}
    /\ delivered = {}
    /\ sendAlerts = {}
    /\ indexed = {}
    /\ showPasteMode = FALSE
    /\ pastedText = NoPaste
    /\ processing = FALSE
    /\ activeDoc = 0
    /\ messages = <<>>
    /\ pdfBase64 = FALSE
    /\ pendingPdfName = 0
    /\ pendingPdfUri = 0
    /\ extractionStatus = ""
    /\ ragProgress = FALSE
    /\ useOCRFallback = FALSE
    /\ lastAlert = ""
    /\ pickPc = "idle"
    /\ indexPc = NoIndexing
    /\ ingest = 0
    /\ docPages = 0
    /\ ext = ExtUnmounted
    /\ ocr = OCRUnmounted
    /\ zombies = [ waiting |-> 0, capturing |-> 0, captured |-> 0 ]
    /\ extracted = <<>>
    /\ faults = NoFaults
    /\ pageLog = <<>>
    /\ completions = <<>>

\* no retrieve has been made, against the empty index
NoQuery == [ asked |-> FALSE, q |-> {}, k |-> 0 ]

NoRetrieval ==
    /\ docIndex = <<>>
    /\ query = NoQuery
    /\ retrieved = <<>>

\* build(chunks) was not called: no postings
NoIndexer ==
    [ pc |-> "none", pages |-> <<>>, built |-> {}, postings |-> {}, builds |-> 0,
      first |-> {} ]

\* answer(question, retrieval, documentId) was not called
NoAnswer ==
    [ asked |-> FALSE, failed |-> FALSE, prompt |-> [ kind |-> "none", question |-> {} ],
      context |-> <<>>, sources |-> <<>> ]

\* no call of ApiMiddleware or apiService is under way
NoInvocation ==
    [ op |-> "none", pc |-> "idle", mockResponse |-> "undefined", apiCalls |-> 0,
      mockCalls |-> 0, fetches |-> 0, imports |-> 0, realFailed |-> FALSE ]

\* the module was loaded with FORCE_MOCK_MODE = force and nothing was called
ApiIdle(force) == [ FORCE_MOCK_MODE |-> force, inv |-> NoInvocation, log |-> <<>> ]

NoServices ==
    /\ indexer = NoIndexer
    /\ composed = NoAnswer
    /\ api = ApiIdle(FALSE)

Init == InitScreen("ask") /\ NoRetrieval /\ NoServices

(***************************************************************************)
(* React commit of AskScreen: the children follow the new state            *)
(***************************************************************************)
\* in-flight processCurrentPage invocations of an instance that is unmounted go on
\* as orphans: their closures are still alive
Orphans(o) ==
    [ waiting   |-> zombies.waiting   + (IF o.procPc = "waiting"   THEN o.inFlight ELSE 0),
      capturing |-> zombies.capturing + (IF o.procPc = "capturing" THEN o.inFlight ELSE 0),
      captured  |-> zombies.captured  + (IF o.procPc = "captured"  THEN o.inFlight ELSE 0) ]

\* e and o are the two instances after the step's own updates.
\* {pdfBase64 && (<PDFExtractor .../>)} and
\* {useOCRFallback && pendingPdfUri && (<PDFOCRFallback maxPages=.../>)}
Render(e, o) ==
    /\ ext' = IF pdfBase64'
              THEN (IF e.html = "none" THEN [ ExtUnmounted EXCEPT !.html = "mounted" ] ELSE e)
              ELSE ExtUnmounted
    /\ LET want == OCRMountedBy(useOCRFallback', pendingPdfUri')
       IN  /\ IF want /\ ~o.mounted
              THEN \E cap \in 0..MaxCap : ocr' = NewOCR(cap)
              ELSE ocr' = IF want THEN o ELSE OCRUnmounted
           /\ zombies' = IF ~want /\ o.mounted THEN Orphans(o) ELSE zombies

(***************************************************************************)
(* AskScreen.handlePDFJSExtraction, up to its first await                  *)
(***************************************************************************)
\* variant: the fall back to OCR leaves pdfBase64 set
handlePDFJSExtraction_KeepsExtractor(result) ==
    IF needsOCRFallback(result)
    THEN /\ extractionStatus' = "OCR fallback"
         /\ useOCRFallback' = TRUE
         /\ UNCHANGED <<screenVars, pdfBase64, indexPc>>
    ELSE IF result.success /\ result.len > MinUsableChars
    THEN /\ extractionStatus' = "Indexing document with RAG..."
         /\ indexPc' = [ pc |-> "pdfjs_create", len |-> result.len, pageCount |-> 0 ]
         /\ UNCHANGED <<screenVars, pdfBase64, useOCRFallback>>
    ELSE UNCHANGED <<screenVars, pdfBase64, useOCRFallback, extractionStatus, indexPc>>

handlePDFJSExtraction(result) ==
    IF needsOCRFallback(result)
    THEN /\ extractionStatus' = "OCR fallback"
         /\ pdfBase64' = FALSE
         /\ useOCRFallback' = TRUE
         /\ UNCHANGED <<screenVars, indexPc>>
    ELSE IF result.success /\ result.len > MinUsableChars
    THEN /\ extractionStatus' = "Indexing document with RAG..."
         /\ indexPc' = [ pc |-> "pdfjs_create", len |-> result.len, pageCount |-> 0 ]
         /\ UNCHANGED <<screenVars, pdfBase64, useOCRFallback>>
    ELSE UNCHANGED <<screenVars, pdfBase64, useOCRFallback, extractionStatus, indexPc>>

(***************************************************************************)
(* AskScreen.handleOCRComplete, up to its first await                      *)
(***************************************************************************)
\* the "Clean up" block of handleOCRComplete
OCRCleanup ==
    /\ useOCRFallback' = FALSE
    /\ pendingPdfUri' = 0
    /\ pendingPdfName' = 0
    /\ processing' = FALSE
    /\ extractionStatus' = ""
    /\ ragProgress' = FALSE

\* variant: the document is made active before createFromText is awaited
handleOCRComplete_ActiveFirst(result) ==
    IF result.success /\ result.len > MinUsableChars
    THEN /\ extractionStatus' = "Indexing document with RAG..."
         /\ indexPc' = [ pc |-> "ocr_create", len |-> result.len,
                         pageCount |-> result.pageCount ]
         /\ activeDoc' = ingest
         /\ messages' = <<SystemMessage>>
         /\ UNCHANGED <<processing, lastAlert, pendingPdfName, pendingPdfUri, ragProgress,
                        pdfBase64, useOCRFallback>>
    ELSE /\ lastAlert' = "Extraction Failed"
         /\ OCRCleanup
         /\ UNCHANGED <<activeDoc, messages, pdfBase64, indexPc>>

handleOCRComplete(result) ==
    IF result.success /\ result.len > MinUsableChars
    THEN /\ extractionStatus' = "Indexing document with RAG..."
         /\ indexPc' = [ pc |-> "ocr_create", len |-> result.len,
                         pageCount |-> result.pageCount ]
         /\ UNCHANGED <<screenVars, pdfBase64, useOCRFallback>>
    ELSE /\ lastAlert' = "Extraction Failed"
         /\ OCRCleanup
         /\ UNCHANGED <<activeDoc, messages, pdfBase64, indexPc>>

(***************************************************************************)
(* AskScreen.handlePickDocument                                            *)
(***************************************************************************)
\* variant: the "Choose PDF" button without disabled={processing}
PickStart_NotDisabled ==
    /\ screen = "ask"
    /\ sendAlerts = {}
    /\ pickPc = "idle"
    /\ activeDoc = 0
    /\ ingest < MaxIngest
    /\ pickPc' = "picking"
    /\ lastAlert' = ""
    /\ UNCHANGED <<processing, activeDoc, messages, pendingPdfName, pendingPdfUri,
                   ragProgress, pdfBase64, useOCRFallback, extractionStatus, indexPc,
                   ingest, docPages, ext, ocrSide, extHist>>
    /\ UNCHANGED chatVars

\* the "Choose PDF" button: rendered while !activeDoc, disabled while processing;
\* an alert, being modal, was dismissed before the button can be pressed
PickStart ==
    /\ screen = "ask"
    /\ sendAlerts = {}
    /\ pickPc = "idle"
    /\ ~processing
    /\ activeDoc = 0
    /\ ingest < MaxIngest
    /\ pickPc' = "picking"
    /\ lastAlert' = ""
    /\ UNCHANGED <<processing, activeDoc, messages, pendingPdfName, pendingPdfUri,
                   ragProgress, pdfBase64, useOCRFallback, extractionStatus, indexPc,
                   ingest, docPages, ext, ocrSide, extHist>>
    /\ UNCHANGED chatVars

\* result.canceled
PickCanceled ==
    /\ pickPc = "picking"
    /\ pickPc' = "idle"
    /\ UNCHANGED <<screenVars, pdfBase64, useOCRFallback, extractionStatus, indexPc,
                   ingest, docPages, ext, ocrSide, extHist>>
    /\ UNCHANGED chatVars

\* getDocumentAsync throws: the outer catch
PickFailed ==
    /\ pickPc = "picking"
    /\ pickPc' = "idle"
    /\ lastAlert' = "Error"
    /\ UNCHANGED <<processing, activeDoc, messages, pendingPdfName, pendingPdfUri,
                   ragProgress, pdfBase64, useOCRFallback, extractionStatus, indexPc,
                   ingest, docPages, ext, ocrSide, extHist>>
    /\ UNCHANGED chatVars

\* a file of n pages was chosen: up to await readPDFAsBase64
PickChosen(n) ==
    /\ pickPc = "picking"
    /\ pickPc' = "reading"
    /\ ingest' = ingest + 1
    /\ docPages' = n
    /\ processing' = TRUE
    /\ extractionStatus' = "Reading PDF file..."
    /\ pendingPdfUri' = ingest + 1
    /\ pendingPdfName' = ingest + 1
    /\ UNCHANGED <<activeDoc, messages, ragProgress, lastAlert, pdfBase64,
                   useOCRFallback, indexPc>>
    /\ Render(ext, ocr)
    /\ extracted' = <<>>
    /\ faults' = NoFaults
    /\ pageLog' = <<>>
    /\ completions' = <<>>
    /\ UNCHANGED chatVars

\* readPDFAsBase64 resolved
ReadResolved ==
    /\ pickPc = "reading"
    /\ pickPc' = "idle"
    /\ pdfBase64' = TRUE
    /\ extractionStatus' = "Extracting text with PDF.js..."
    /\ UNCHANGED <<screenVars, useOCRFallback, indexPc, ingest, docPages>>
    /\ Render(ext, ocr)
    /\ UNCHANGED <<extHist, ocrHist>>
    /\ UNCHANGED chatVars

\* readPDFAsBase64 threw: the inner catch
ReadRejected ==
    /\ pickPc = "reading"
    /\ pickPc' = "idle"
    /\ processing' = FALSE
    /\ lastAlert' = "Error"
    /\ UNCHANGED <<activeDoc, messages, pendingPdfName, pendingPdfUri, ragProgress,
                   pdfBase64, useOCRFallback, extractionStatus, indexPc, ingest, docPages>>
    /\ Render(ext, ocr)
    /\ UNCHANGED <<extHist, ocrHist>>
    /\ UNCHANGED chatVars

\* the x-circle button of the header, rendered while activeDoc
CloseDocument ==
    /\ screen = "ask"
    /\ sendAlerts = {}
    /\ activeDoc # 0
    /\ activeDoc' = 0
    /\ messages' = <<>>
    /\ UNCHANGED <<processing, pendingPdfName, pendingPdfUri, ragProgress, lastAlert,
                   pdfBase64, useOCRFallback, extractionStatus, indexPc, pickVars>>
    /\ Render(ext, ocr)
    /\ UNCHANGED <<extHist, ocrHist>>
    /\ UNCHANGED chatVars

(***************************************************************************)
(* AskScreen: the awaits of handlePDFJSExtraction and handleOCRComplete    *)
(***************************************************************************)
\* handleRAGProgress, called by createFromText while it indexes
handleRAGProgress ==
    /\ indexPc.pc \in {"pdfjs_create", "ocr_create"}
    /\ ragProgress' = TRUE
    /\ extractionStatus' = "RAG progress"
    /\ UNCHANGED <<processing, activeDoc, messages, pendingPdfName, pendingPdfUri,
                   lastAlert, pdfBase64, useOCRFallback, indexPc, pickVars, ext,
                   ocrSide, extHist>>
    /\ UNCHANGED chatVars

\* the "Clean up" block of handlePDFJSExtraction
PDFJSCleanup ==
    /\ pdfBase64' = FALSE
    /\ pendingPdfName' = 0
    /\ pendingPdfUri' = 0
    /\ processing' = FALSE
    /\ extractionStatus' = ""
    /\ ragProgress' = FALSE

\* handlePDFJSExtraction: createFromText resolved, getRAGStats is awaited
PDFJSCreateResolved ==
    /\ indexPc.pc = "pdfjs_create"
    /\ indexPc' = [ indexPc EXCEPT !.pc = "pdfjs_stats" ]
    /\ UNCHANGED <<screenVars, pdfBase64, useOCRFallback, extractionStatus, pickVars,
                   ext, ocrSide, extHist>>
    /\ indexed' = indexed \cup {ingest}
    /\ UNCHANGED <<dialogVars, retrievalVars, serviceVars>>

\* handlePDFJSExtraction: getRAGStats resolved
PDFJSStatsResolved ==
    /\ indexPc.pc = "pdfjs_stats"
    /\ indexPc' = NoIndexing
    /\ activeDoc' = ingest
    /\ messages' = <<SystemMessage>>
    /\ PDFJSCleanup
    /\ UNCHANGED <<lastAlert, useOCRFallback, pickVars>>
    /\ Render(ext, ocr)
    /\ UNCHANGED <<extHist, ocrHist>>
    /\ UNCHANGED chatVars

\* handlePDFJSExtraction: createFromText or getRAGStats threw
PDFJSIndexRejected ==
    /\ indexPc.pc \in {"pdfjs_create", "pdfjs_stats"}
    /\ indexPc' = NoIndexing
    /\ lastAlert' = "Error"
    /\ PDFJSCleanup
    /\ UNCHANGED <<activeDoc, messages, useOCRFallback, pickVars>>
    /\ Render(ext, ocr)
    /\ UNCHANGED <<extHist, ocrHist>>
    /\ UNCHANGED chatVars

\* handleOCRComplete: createFromText resolved
OCRCreateResolved ==
    /\ indexPc.pc = "ocr_create"
    /\ indexPc' = NoIndexing
    /\ activeDoc' = ingest
    /\ messages' = <<SystemMessage>>
    /\ OCRCleanup
    /\ UNCHANGED <<lastAlert, pdfBase64, pickVars>>
    /\ Render(ext, ocr)
    /\ UNCHANGED <<extHist, ocrHist>>
    /\ indexed' = indexed \cup {ingest}
    /\ UNCHANGED <<dialogVars, retrievalVars, serviceVars>>

\* handleOCRComplete: createFromText threw
OCRCreateRejected ==
    /\ indexPc.pc = "ocr_create"
    /\ indexPc' = NoIndexing
    /\ lastAlert' = "Error"
    /\ OCRCleanup
    /\ UNCHANGED <<activeDoc, messages, pdfBase64, pickVars>>
    /\ Render(ext, ocr)
    /\ UNCHANGED <<extHist, ocrHist>>
    /\ UNCHANGED chatVars

(***************************************************************************)
(* PDFQAScreen.handlePDFJSExtraction, up to its first await                *)
(***************************************************************************)
\* the "Clean up" block of PDFQAScreen.handlePDFJSExtraction
QA_Cleanup ==
    /\ pdfBase64' = FALSE
    /\ pendingPdfName' = 0
    /\ processing' = FALSE
    /\ extractionStatus' = ""

QA_handlePDFJSExtraction(result) ==
    IF result.success /\ result.len > MinUsableChars
    THEN /\ indexPc' = [ pc |-> "qa_pdf_create", len |-> result.len, pageCount |-> 0 ]
         /\ UNCHANGED <<screenVars, pdfBase64, useOCRFallback, extractionStatus>>
    ELSE /\ lastAlert' = "PDF Extraction Issue"
         /\ QA_Cleanup
         /\ UNCHANGED <<activeDoc, messages, pendingPdfUri, ragProgress, useOCRFallback,
                        indexPc>>

(***************************************************************************)
(* PDFExtractor                                                            *)
(***************************************************************************)
\* onExtracted(result), e being the extractor after the caller's own updates:
\* onExtracted={handlePDFJSExtraction} of the screen that mounted it
onExtracted(result, e) ==
    /\ extracted' = Append(extracted, result)
    /\ IF screen = "qa" THEN QA_handlePDFJSExtraction(result)
                        ELSE handlePDFJSExtraction(result)
    /\ Render(e, ocr)
    /\ UNCHANGED <<pickVars, ocrHist>>

\* the useEffect on [pdfBase64, forceOnline], up to the await in loadHTML
PDFExtractor_effect ==
    /\ ext.html = "mounted"
    /\ ext' = [ ext EXCEPT !.html = "loading", !.hasExtracted = FALSE ]
    /\ extractionStatus' = "Loading bundled PDF.js..."
    /\ UNCHANGED <<screenVars, pdfBase64, useOCRFallback, indexPc, pickVars, ocrSide,
                   extHist>>
    /\ UNCHANGED chatVars

\* loadHTML: the offline HTML, or after its failure the online HTML, was generated
loadHTMLResolved ==
    /\ ext.html = "loading"
    /\ ext' = [ ext EXCEPT !.html = "ready" ]
    /\ extractionStatus' = "Extracting text..."
    /\ UNCHANGED <<screenVars, pdfBase64, useOCRFallback, indexPc, pickVars, ocrSide,
                   extHist>>
    /\ UNCHANGED chatVars

\* loadHTML: the catch block (mounted is true: the instance is still mounted)
loadHTMLRejected ==
    /\ ext.html = "loading"
    /\ faults' = [ faults EXCEPT !.events = @ + 1, !.converted = @ + 1 ]
    /\ onExtracted(FaultResult, [ ext EXCEPT !.html = "failed" ])
    /\ UNCHANGED chatVars

\* variant of handleMessage: no test of hasExtracted.current
PDFExtractor_handleMessage_Unguarded(m) ==
    /\ ext.html = "ready"
    /\ ext.events < MaxWebEvents
    /\ LET e == [ ext EXCEPT !.events = @ + 1 ]
       IN  IF m.parses
           THEN /\ onExtracted(m.result, [ e EXCEPT !.hasExtracted = TRUE ])
                /\ UNCHANGED faults
           ELSE /\ onExtracted(FaultResult, e)
                /\ faults' = [ faults EXCEPT !.events = @ + 1, !.converted = @ + 1 ]
    /\ UNCHANGED chatVars

\* handleMessage(event) of PDFExtractor
PDFExtractor_handleMessage(m) ==
    /\ ext.html = "ready"
    /\ ext.events < MaxWebEvents
    /\ LET e == [ ext EXCEPT !.events = @ + 1 ]
       IN  IF ext.hasExtracted
           THEN /\ ext' = e
                /\ UNCHANGED <<screenVars, pdfBase64, useOCRFallback, extractionStatus,
                               indexPc, pickVars, ocrSide, extHist>>
           ELSE IF m.parses
           THEN /\ onExtracted(m.result, [ e EXCEPT !.hasExtracted = TRUE ])
                /\ UNCHANGED faults
           ELSE /\ onExtracted(FaultResult, e)
                /\ faults' = [ faults EXCEPT !.events = @ + 1, !.converted = @ + 1 ]
    /\ UNCHANGED chatVars

\* variant of PDFExtractor_handleError: the error is logged and marked, onExtracted
\* is not called
PDFExtractor_handleError_Silent ==
    /\ ext.html = "ready"
    /\ ext.events < MaxWebEvents
    /\ ext' = [ ext EXCEPT !.events = @ + 1, !.hasExtracted = TRUE ]
    /\ faults' = [ faults EXCEPT !.events = @ + 1 ]
    /\ UNCHANGED <<screenVars, pdfBase64, useOCRFallback, extractionStatus,
                   indexPc, pickVars, ocrSide, extracted>>
    /\ UNCHANGED chatVars

\* handleError(syntheticEvent) of PDFExtractor
PDFExtractor_handleError ==
    /\ ext.html = "ready"
    /\ ext.events < MaxWebEvents
    /\ LET e == [ ext EXCEPT !.events = @ + 1 ]
       IN  IF ~ext.hasExtracted
           THEN /\ onExtracted(FaultResult, [ e EXCEPT !.hasExtracted = TRUE ])
                /\ faults' = [ faults EXCEPT !.events = @ + 1, !.converted = @ + 1 ]
           ELSE /\ ext' = e
                /\ faults' = [ faults EXCEPT !.events = @ + 1 ]
                /\ UNCHANGED <<screenVars, pdfBase64, useOCRFallback, extractionStatus,
                               indexPc, pickVars, ocrSide, extracted>>
    /\ UNCHANGED chatVars

(***************************************************************************)
(* PDFOCRFallback                                                          *)
(***************************************************************************)
hostUnchanged == UNCHANGED <<screenVars, pdfBase64, useOCRFallback, extractionStatus,
                             indexPc, pickVars, ext, extHist>>

\* onComplete(result), o being the instance after the caller's own updates; the
\* history keeps, next to the result, who called and what the instance then held
onComplete(result, via, o) ==
    /\ completions' = Append(completions, [ result      |-> result,
                                            via         |-> via,
                                            totalPages  |-> o.totalPages,
                                            maxPages    |-> o.maxPages,
                                            accumulated |-> o.extractedTexts ])
    /\ handleOCRComplete(result)
    /\ Render(ext, o)
    /\ UNCHANGED <<pickVars, extHist>>

\* variant of finishExtraction: hasCompleted.current is tested and never set
finishExtraction_NeverMarked(o, total) ==
    IF o.hasCompleted
    THEN /\ ocr' = o
         /\ UNCHANGED <<zombies, completions>>
         /\ hostUnchanged
    ELSE onComplete(FinishResult(total, o.maxPages, o.extractedTexts), "finishExtraction", o)

\* finishExtraction() in the closure whose totalPages is total
finishExtraction(o, total) ==
    IF o.hasCompleted
    THEN /\ ocr' = o
         /\ UNCHANGED <<zombies, completions>>
         /\ hostUnchanged
    ELSE onComplete(FinishResult(total, o.maxPages, o.extractedTexts), "finishExtraction",
                    [ o EXCEPT !.hasCompleted = TRUE ])

\* variant of EffectRuns: the first early return tests hasCompleted.current only
EffectRuns_FirstReturnDropped(o) ==
    /\ ~o.hasCompleted
    /\ ~(o.totalPages = 0)

\* the guard of the useEffect on [pageReady, currentPage, totalPages]
EffectRuns(o) ==
    /\ ~(~o.pageReady \/ o.processing \/ o.hasCompleted)
    /\ ~(o.totalPages = 0)

\* processCurrentPage() up to its first await
processCurrentPage(o) ==
    IF o.hasCompleted THEN o
    ELSE [ o EXCEPT !.processing = TRUE,
                    !.procPc     = "waiting",
                    !.procPage   = o.currentPage,
                    !.procTotal  = o.totalPages,
                    !.inFlight   = @ + 1 ]

\* the useEffect runs after a commit that changed one of its deps
PDFOCRFallback_effect ==
    /\ ocr.mounted
    /\ ocr.effectPending
    /\ LET o == [ ocr EXCEPT !.effectPending = FALSE ]
       IN  IF EffectRuns(o)
           THEN /\ ocr' = processCurrentPage(o)
                /\ extractionStatus' = "OCR: Processing page"
           ELSE /\ ocr' = o
                /\ UNCHANGED extractionStatus
    /\ UNCHANGED <<screenVars, pdfBase64, useOCRFallback, indexPc, pickVars, ext,
                   zombies, ocrHist, extHist>>
    /\ UNCHANGED chatVars

\* processCurrentPage() after its awaits: from setProcessing(false) to the end
processCurrentPageEnd(o) ==
    LET d == [ o EXCEPT !.processing    = FALSE,
                        !.pageReady     = FALSE,
                        !.procPc        = "idle",
                        !.inFlight      = @ - 1,
                        !.effectPending = TRUE ]
    IN  IF o.procPage < Min(o.procTotal, o.maxPages)
        THEN /\ ocr' = [ d EXCEPT !.currentPage = o.procPage + 1 ]
             /\ UNCHANGED <<zombies, completions>>
             /\ hostUnchanged
        ELSE finishExtraction(d, o.procTotal)

\* the 500 ms wait is over: viewShotRef.current is set while the instance is
\* mounted, captureRef(viewShotRef) is called
renderWaitOver ==
    /\ ocr.mounted
    /\ ocr.procPc = "waiting"
    /\ pageLog' = Append(pageLog, [ page  |-> ocr.procPage,
                                    shown |-> ocr.shown,
                                    res   |-> "capturing" ])
    /\ ocr' = [ ocr EXCEPT !.procPc = "capturing" ]
    /\ UNCHANGED <<zombies, completions>>
    /\ hostUnchanged
    /\ UNCHANGED chatVars

\* captureRef(viewShotRef) resolved (ok): extractTextFromImageWithMLKit(imageUri)
\* is called; or it threw
captureRef(ok) ==
    /\ ocr.mounted
    /\ ocr.procPc = "capturing"
    /\ pageLog' = [ pageLog EXCEPT ![Len(pageLog)].res =
                                       IF ok THEN "pending" ELSE "captureFailed" ]
    /\ IF ok
       THEN /\ ocr' = [ ocr EXCEPT !.procPc = "captured" ]
            /\ UNCHANGED <<zombies, completions>>
            /\ hostUnchanged
       ELSE processCurrentPageEnd(ocr)
    /\ UNCHANGED chatVars

\* extractTextFromImageWithMLKit(imageUri) resolved with pageText t
recognized(t) ==
    /\ ocr.mounted
    /\ ocr.procPc = "captured"
    /\ pageLog' = [ pageLog EXCEPT ![Len(pageLog)].res = IF t.blank THEN "blank" ELSE "text" ]
    /\ processCurrentPageEnd(
          IF t.blank THEN ocr
          ELSE [ ocr EXCEPT !.extractedTexts =
                     Append(@, [ page |-> ocr.procPage, len |-> t.len ]) ])
    /\ UNCHANGED chatVars

\* extractTextFromImageWithMLKit(imageUri) threw
recognizeFailed ==
    /\ ocr.mounted
    /\ ocr.procPc = "captured"
    /\ pageLog' = [ pageLog EXCEPT ![Len(pageLog)].res = "ocrFailed" ]
    /\ processCurrentPageEnd(ocr)
    /\ UNCHANGED chatVars

\* handleLoadComplete(numberOfPages)
handleLoadComplete ==
    /\ ocr.mounted
    /\ ~ocr.loaded
    /\ ~ocr.effectPending
    /\ ocr' = [ ocr EXCEPT !.loaded = TRUE, !.totalPages = docPages,
                           !.effectPending = TRUE ]
    /\ extractionStatus' = "PDF has pages. Starting OCR..."
    /\ UNCHANGED <<screenVars, pdfBase64, useOCRFallback, indexPc, pickVars, ext,
                   zombies, ocrHist, extHist>>
    /\ UNCHANGED chatVars

\* handlePageChanged(page): the renderer reports the page of the page prop
\* (repeat = FALSE) or reports again the page it has already reported
handlePageChanged(repeat) ==
    /\ ocr.mounted
    /\ IF repeat
       THEN /\ ocr.shown # 0
            /\ ocr.dups < MaxDupEvents
            /\ ocr' = [ ocr EXCEPT !.timers = @ + 1, !.dups = @ + 1 ]
       ELSE /\ ocr.shown # ocr.currentPage
            /\ ocr' = [ ocr EXCEPT !.timers = @ + 1, !.shown = ocr.currentPage ]
    /\ UNCHANGED <<zombies, ocrHist>>
    /\ hostUnchanged
    /\ UNCHANGED chatVars

\* a timer of handlePageChanged fires: setPageReady(true)
pageReadyTimer ==
    /\ ocr.mounted
    /\ ocr.timers > 0
    /\ ~ocr.effectPending
    /\ ocr' = [ ocr EXCEPT !.timers = @ - 1,
                           !.pageReady = TRUE,
                           !.effectPending = ~ocr.pageReady ]
    /\ UNCHANGED <<zombies, ocrHist>>
    /\ hostUnchanged
    /\ UNCHANGED chatVars

\* variant of PDFOCRFallback_handleError: no test of hasCompleted.current
PDFOCRFallback_handleError_Unguarded ==
    /\ ocr.mounted
    /\ onComplete(RenderErrorResult, "handleError", [ ocr EXCEPT !.hasCompleted = TRUE ])
    /\ UNCHANGED pageLog
    /\ UNCHANGED chatVars

\* handleError(error) of PDFOCRFallback: the renderer reports an error
PDFOCRFallback_handleError ==
    /\ ocr.mounted
    /\ IF ~ocr.hasCompleted
       THEN /\ onComplete(RenderErrorResult, "handleError",
                       [ ocr EXCEPT !.hasCompleted = TRUE ])
            /\ UNCHANGED pageLog
       ELSE UNCHANGED vars
    /\ UNCHANGED chatVars

\* an orphaned processCurrentPage after its 500 ms wait: viewShotRef.current is
\* null, nothing is captured, its setState calls do nothing and finishExtraction
\* returns because hasCompleted.current is true
orphanWaitOver ==
    /\ zombies.waiting > 0
    /\ zombies' = [ zombies EXCEPT !.waiting = @ - 1 ]
    /\ UNCHANGED <<ocr, ocrHist>>
    /\ hostUnchanged
    /\ UNCHANGED chatVars

\* an orphaned processCurrentPage whose captureRef resolves (ok) or throws: the
\* view is gone, what the pending capture does is the library's choice; when it
\* resolves, extractTextFromImageWithMLKit(imageUri) is called
orphanCaptureRef(ok) ==
    /\ zombies.capturing > 0
    /\ zombies' = [ zombies EXCEPT !.capturing = @ - 1,
                                   !.captured  = IF ok THEN @ + 1 ELSE @ ]
    /\ UNCHANGED <<ocr, ocrHist>>
    /\ hostUnchanged
    /\ UNCHANGED chatVars

\* an orphaned processCurrentPage whose recognition resolves or throws
orphanRecognized ==
    /\ zombies.captured > 0
    /\ zombies' = [ zombies EXCEPT !.captured = @ - 1 ]
    /\ UNCHANGED <<ocr, ocrHist>>
    /\ hostUnchanged
    /\ UNCHANGED chatVars

(***************************************************************************)
(* The conversation of AskScreen                                           *)
(***************************************************************************)
\* everything a step of the conversation leaves alone
ingestionUnchanged ==
    UNCHANGED <<processing, activeDoc, pdfBase64, pendingPdfName, pendingPdfUri,
                extractionStatus, ragProgress, useOCRFallback, pickPc, indexPc, ingest,
                docPages, ext, ocr, zombies, extracted, faults, pageLog, completions,
                screen, indexed, showPasteMode, pastedText, retrievalVars, serviceVars>>

\* initializeText() of the Learn tab has loaded the text model
ModelLoaded ==
    /\ ~isTextModelReady
    /\ isTextModelReady' = TRUE
    /\ ingestionUnchanged
    /\ UNCHANGED <<messages, lastAlert, isProcessing, inputText, sends, calls, pending, delivered,
                   sendAlerts>>

\* onChangeText={setInputText} of the chat's TextInput, rendered while activeDoc
TypeQuestion ==
    /\ sendAlerts = {}
    /\ activeDoc # 0
    /\ sends < MaxQuestions
    /\ inputText # sends + 1
    /\ inputText' = sends + 1
    /\ ingestionUnchanged
    /\ UNCHANGED <<messages, lastAlert, isTextModelReady, isProcessing, sends, calls,
                   pending, delivered, sendAlerts>>

\* the two setMessages of a submission: the user's message, then the placeholder
Submitted(msgs, id) ==
    msgs \o << [ role |-> "user", q |-> id ], [ role |-> "thinking", q |-> id ] >>

\* variant of handleSend: no test of isTextModelReady
handleSend_NoReadyTest ==
    /\ screen = "ask"
    /\ sendAlerts = {}
    /\ ~isLoading
    /\ sends < MaxQuestions
    /\ ingestionUnchanged
    /\ IF inputText = 0 \/ activeDoc = 0
       THEN UNCHANGED <<messages, lastAlert, isTextModelReady, isProcessing, inputText,
                        sends, calls,
                        pending, delivered, sendAlerts>>
       ELSE /\ inputText' = 0
            /\ messages' = Submitted(messages, sends + 1)
            /\ sends' = sends + 1
            /\ calls' = calls + 1
            /\ pending' = pending \cup
                   { [ id |-> sends + 1, text |-> inputText, doc |-> activeDoc ] }
            /\ UNCHANGED delivered
            /\ UNCHANGED <<lastAlert, isTextModelReady, isProcessing, sendAlerts>>

\* handleSend of AskScreen, up to await pdfService.answerWithRAG
handleSend ==
    /\ screen = "ask"
    /\ sendAlerts = {}
    /\ ~isLoading
    /\ sends < MaxQuestions
    /\ ingestionUnchanged
    /\ IF inputText = 0 \/ activeDoc = 0
       THEN UNCHANGED <<messages, lastAlert, isTextModelReady, isProcessing, inputText,
                        sends, calls,
                        pending, delivered, sendAlerts>>
       ELSE IF ~isTextModelReady
       THEN /\ lastAlert' = "Model Not Ready"
            /\ UNCHANGED <<messages, isTextModelReady, isProcessing, inputText, sends,
                           calls, pending, delivered,
                           sendAlerts>>
       ELSE /\ inputText' = 0
            /\ messages' = Submitted(messages, sends + 1)
            /\ sends' = sends + 1
            /\ calls' = calls + 1
            /\ pending' = pending \cup
                   { [ id |-> sends + 1, text |-> inputText, doc |-> activeDoc ] }
            /\ UNCHANGED delivered
            /\ UNCHANGED <<lastAlert, isTextModelReady, isProcessing, sendAlerts>>

\* the record of an answer's arrival: the question r and the document active when
\* its await resumed
Delivery(r) == [ id |-> r.id, doc |-> r.doc, active |-> activeDoc ]

\* variant of AnswerInPlace: the answer replaces whichever placeholder is there
AnswerInPlace_AnyPlaceholder(msgs, id) ==
    [ i \in DOMAIN msgs |->
        IF msgs[i].role = "thinking"
        THEN [ role |-> "answer", q |-> id ] ELSE msgs[i] ]

\* prev.map(msg => msg.id === thinkingId ? answer : msg), thinkingId being
\* "thinking-" + Date.now() of the submission
AnswerInPlace(msgs, id) ==
    [ i \in DOMAIN msgs |->
        IF msgs[i].role = "thinking" /\ msgs[i].q = id
        THEN [ role |-> "answer", q |-> id ] ELSE msgs[i] ]

\* prev.filter(msg => !msg.id.startsWith("thinking-"))
WithoutThinking(msgs) ==
    LET keep(m) == m.role # "thinking" IN SelectSeq(msgs, keep)

\* handleSend of AskScreen: answerWithRAG resolved
answerWithRAGResolved(r) ==
    /\ screen = "ask"
    /\ r \in pending
    /\ pending' = pending \ {r}
    /\ delivered' = delivered \cup { Delivery(r) }
    /\ messages' = AnswerInPlace(messages, r.id)
    /\ ingestionUnchanged
    /\ UNCHANGED <<lastAlert, isTextModelReady, isProcessing, inputText, sends, calls,
                   sendAlerts>>

\* handleSend of AskScreen: answerWithRAG threw, the catch block
answerWithRAGRejected(r) ==
    /\ screen = "ask"
    /\ r \in pending
    /\ pending' = pending \ {r}
    /\ UNCHANGED delivered
    /\ messages' = WithoutThinking(messages)
    /\ sendAlerts' = sendAlerts \cup {r.text}
    /\ ingestionUnchanged
    /\ UNCHANGED <<lastAlert, isTextModelReady, isProcessing, inputText, sends, calls>>

\* variant of TryAgain: the question is submitted again
TryAgain_Resend(t) ==
    /\ t \in sendAlerts
    /\ sendAlerts' = sendAlerts \ {t}
    /\ calls' = calls + 1
    /\ pending' = pending \cup { [ id |-> sends, text |-> t, doc |-> activeDoc ] }
    /\ UNCHANGED delivered
    /\ ingestionUnchanged
    /\ UNCHANGED <<messages, lastAlert, isTextModelReady, isProcessing, inputText, sends>>

\* the "Try Again" button of the alert: setInputText(question)
TryAgain(t) ==
    /\ t \in sendAlerts
    /\ sendAlerts' = sendAlerts \ {t}
    /\ inputText' = t
    /\ ingestionUnchanged
    /\ UNCHANGED <<messages, lastAlert, isTextModelReady, isProcessing, sends, calls,
                   pending, delivered>>

\* the "OK" button of the alert
AlertOK(t) ==
    /\ t \in sendAlerts
    /\ sendAlerts' = sendAlerts \ {t}
    /\ ingestionUnchanged
    /\ UNCHANGED <<messages, lastAlert, isTextModelReady, isProcessing, inputText,
                   sends, calls, pending, delivered>>

\* the "Clear" button of the "Clear Chat" alert, offered while messages.length > 1
ClearChat ==
    /\ screen = "ask"
    /\ sendAlerts = {}
    /\ activeDoc # 0
    /\ Len(messages) > 1
    /\ messages' = <<>>
    /\ ingestionUnchanged
    /\ UNCHANGED <<lastAlert, isTextModelReady, isProcessing, inputText, sends, calls,
                   pending, delivered,
                   sendAlerts>>

\* the questions a submission may have sent
Questions == [ id : 1..MaxQuestions, text : 1..MaxQuestions, doc : 1..MaxIngest ]

AskChat ==
    \/ ModelLoaded
    \/ TypeQuestion
    \/ handleSend
    \/ \E r \in Questions : answerWithRAGResolved(r)
    \/ \E r \in Questions : answerWithRAGRejected(r)
    \/ \E t \in 1..MaxQuestions : TryAgain(t)
    \/ \E t \in 1..MaxQuestions : AlertOK(t)
    \/ ClearChat

(***************************************************************************)
(* PDFQAScreen: ingestion from a PDF, from pasted text, from a camera photo *)
(***************************************************************************)
\* no alert with a button of its own is on display
QA_NoModal == lastAlert # "PDF Extraction Issue"

\* what the steps of PDFQAScreen's handlers leave alone: the OCR fallback, which
\* the screen does not mount, and the conversation
QA_rest ==
    UNCHANGED <<pendingPdfUri, ragProgress, useOCRFallback, docPages, ocr, zombies,
                pageLog, completions, screen, isTextModelReady, isProcessing,
                inputText, sends, calls,
                pending, delivered, sendAlerts, retrievalVars, serviceVars>>

\* a system dialog covers the screen: the document picker, the permission
\* request or the camera
QA_SystemDialog == pickPc \in {"qa_picking", "cam_permission", "cam_camera"}

\* a new ingestion: the history of the one before is dropped
QA_NewIngestion ==
    /\ ingest' = ingest + 1
    /\ extracted' = <<>>
    /\ faults' = NoFaults

\* the "Select a PDF Document" button: rendered while !activeDoc and
\* !showPasteMode, disabled while processing
QA_PickStart ==
    /\ screen = "qa"
    /\ QA_NoModal
    /\ pickPc = "idle"
    /\ ~processing
    /\ activeDoc = 0
    /\ ~showPasteMode
    /\ ingest < MaxIngest
    /\ pickPc' = "qa_picking"
    /\ lastAlert' = ""
    /\ QA_rest
    /\ UNCHANGED <<processing, activeDoc, messages, pdfBase64, pendingPdfName,
                   extractionStatus, indexPc, ingest, ext, extHist, indexed,
                   showPasteMode, pastedText>>

\* handlePickDocument: result.canceled (alert = FALSE), or getDocumentAsync threw
QA_PickEnded(alert) ==
    /\ pickPc = "qa_picking"
    /\ pickPc' = "idle"
    /\ lastAlert' = IF alert THEN "Error" ELSE lastAlert
    /\ QA_rest
    /\ UNCHANGED <<processing, activeDoc, messages, pdfBase64, pendingPdfName,
                   extractionStatus, indexPc, ingest, ext, extHist, indexed,
                   showPasteMode, pastedText>>

\* handlePickDocument: a file was chosen, up to await readPDFAsBase64
QA_PickChosen ==
    /\ pickPc = "qa_picking"
    /\ pickPc' = "qa_reading"
    /\ processing' = TRUE
    /\ extractionStatus' = "Reading PDF file..."
    /\ QA_NewIngestion
    /\ QA_rest
    /\ UNCHANGED <<activeDoc, messages, lastAlert, pdfBase64, pendingPdfName, indexPc,
                   ext, indexed, showPasteMode, pastedText>>

\* handlePickDocument: readPDFAsBase64 resolved
QA_ReadResolved ==
    /\ pickPc = "qa_reading"
    /\ pickPc' = "idle"
    /\ pendingPdfName' = ingest
    /\ pdfBase64' = TRUE
    /\ extractionStatus' = "Extracting text with PDF.js..."
    /\ UNCHANGED <<processing, activeDoc, messages, lastAlert, pendingPdfUri, ragProgress,
                   useOCRFallback, indexPc, ingest, docPages, extHist, ocrHist, chatVars>>
    /\ Render(ext, ocr)

\* handlePickDocument: readPDFAsBase64 threw
QA_ReadRejected ==
    /\ pickPc = "qa_reading"
    /\ pickPc' = "idle"
    /\ processing' = FALSE
    /\ lastAlert' = "Error"
    /\ QA_rest
    /\ UNCHANGED <<activeDoc, messages, pdfBase64, pendingPdfName, extractionStatus,
                   indexPc, ingest, ext, extHist, indexed, showPasteMode, pastedText>>

\* handlePDFJSExtraction: createFromText resolved
QA_PDFCreateResolved ==
    /\ indexPc.pc = "qa_pdf_create"
    /\ indexPc' = NoIndexing
    /\ indexed' = indexed \cup {ingest}
    /\ activeDoc' = ingest
    /\ messages' = <<SystemMessage>>
    /\ QA_Cleanup
    /\ UNCHANGED <<lastAlert, pendingPdfUri, ragProgress, useOCRFallback, pickVars,
                   extHist, ocrHist, dialogVars, retrievalVars, serviceVars>>
    /\ Render(ext, ocr)

\* variant: the catch returns, so that the clean-up block is skipped
QA_PDFCreateRejected_Returns ==
    /\ indexPc.pc = "qa_pdf_create"
    /\ indexPc' = NoIndexing
    /\ lastAlert' = "Error"
    /\ UNCHANGED <<activeDoc, messages, pendingPdfUri, ragProgress, useOCRFallback,
                   pickVars, extHist, ocrHist, chatVars, pdfBase64, pendingPdfName,
                   processing, extractionStatus, ext, ocr, zombies>>

\* handlePDFJSExtraction: createFromText threw
QA_PDFCreateRejected ==
    /\ indexPc.pc = "qa_pdf_create"
    /\ indexPc' = NoIndexing
    /\ lastAlert' = "Error"
    /\ QA_Cleanup
    /\ UNCHANGED <<activeDoc, messages, pendingPdfUri, ragProgress, useOCRFallback,
                   pickVars, extHist, ocrHist, chatVars>>
    /\ Render(ext, ocr)

\* the "OK" button of the "PDF Extraction Issue" alert
QA_AlertOK ==
    /\ screen = "qa"
    /\ lastAlert = "PDF Extraction Issue"
    /\ lastAlert' = ""
    /\ QA_rest
    /\ UNCHANGED <<processing, activeDoc, messages, pdfBase64, pendingPdfName,
                   extractionStatus, pickPc, indexPc, ingest, ext, extHist, indexed,
                   showPasteMode, pastedText>>

\* handleCameraScan is called, up to await requestCameraPermissionsAsync: by the
\* "Scan with Camera" button (rendered while !activeDoc and !showPasteMode,
\* disabled while processing), or by the "Use Camera" button of the alert
QA_handleCameraScan(viaAlert) ==
    /\ screen = "qa"
    /\ IF viaAlert
       THEN lastAlert = "PDF Extraction Issue"
       ELSE QA_NoModal /\ pickPc = "idle" /\ ~processing /\ activeDoc = 0 /\ ~showPasteMode
    /\ ingest < MaxIngest
    /\ pickPc' = "cam_permission"
    /\ lastAlert' = ""
    /\ QA_NewIngestion
    /\ QA_rest
    /\ UNCHANGED <<processing, activeDoc, messages, pdfBase64, pendingPdfName,
                   extractionStatus, indexPc, ext, indexed, showPasteMode, pastedText>>

\* handleCameraScan: requestCameraPermissionsAsync resolved
QA_PermissionResolved(granted) ==
    /\ pickPc = "cam_permission"
    /\ IF granted
       THEN /\ processing' = TRUE
            /\ pickPc' = "cam_camera"
            /\ UNCHANGED lastAlert
       ELSE /\ lastAlert' = "Permission Needed"
            /\ processing' = FALSE
            /\ pickPc' = "idle"
    /\ QA_rest
    /\ UNCHANGED <<activeDoc, messages, pdfBase64, pendingPdfName, extractionStatus,
                   indexPc, ingest, ext, extHist, indexed, showPasteMode, pastedText>>

\* handleCameraScan: launchCameraAsync resolved
QA_CameraResolved(canceled) ==
    /\ pickPc = "cam_camera"
    /\ IF canceled
       THEN processing' = FALSE /\ pickPc' = "idle"
       ELSE pickPc' = "cam_ocr" /\ UNCHANGED processing
    /\ QA_rest
    /\ UNCHANGED <<activeDoc, messages, lastAlert, pdfBase64, pendingPdfName,
                   extractionStatus, indexPc, ingest, ext, extHist, indexed,
                   showPasteMode, pastedText>>

\* handleCameraScan: extractTextFromImage resolved with a text of len characters,
\* up to await createFromText
QA_CameraOCRResolved(len) ==
    /\ pickPc = "cam_ocr"
    /\ pickPc' = "idle"
    /\ IF len < CameraMinChars
       THEN /\ lastAlert' = "No Text Found"
            /\ processing' = FALSE
            /\ UNCHANGED indexPc
       ELSE /\ indexPc' = [ pc |-> "cam_create", len |-> len, pageCount |-> 0 ]
            /\ UNCHANGED <<lastAlert, processing>>
    /\ QA_rest
    /\ UNCHANGED <<activeDoc, messages, pdfBase64, pendingPdfName, extractionStatus,
                   ingest, ext, extHist, indexed, showPasteMode, pastedText>>

\* handleCameraScan: one of its awaits threw, the catch and the finally block
QA_CameraThrew ==
    /\ \/ pickPc \in {"cam_permission", "cam_camera", "cam_ocr"} /\ UNCHANGED indexPc
       \/ pickPc = "idle" /\ indexPc.pc = "cam_create" /\ indexPc' = NoIndexing
    /\ pickPc' = "idle"
    /\ lastAlert' = "Scan Failed"
    /\ processing' = FALSE
    /\ QA_rest
    /\ UNCHANGED <<activeDoc, messages, pdfBase64, pendingPdfName, extractionStatus,
                   ingest, ext, extHist, indexed, showPasteMode, pastedText>>

\* handleCameraScan: createFromText resolved
QA_CameraCreateResolved ==
    /\ indexPc.pc = "cam_create"
    /\ indexPc' = NoIndexing
    /\ indexed' = indexed \cup {ingest}
    /\ activeDoc' = ingest
    /\ messages' = <<SystemMessage>>
    /\ processing' = FALSE
    /\ QA_rest
    /\ UNCHANGED <<lastAlert, pdfBase64, pendingPdfName, extractionStatus, pickPc, ingest,
                   ext, extHist, showPasteMode, pastedText>>

\* the "Paste Text Directly" button (FALSE) and the "Cancel" button (TRUE)
QA_setShowPasteMode(cancel) ==
    /\ screen = "qa"
    /\ QA_NoModal
    /\ ~QA_SystemDialog
    /\ activeDoc = 0
    /\ showPasteMode = cancel
    /\ showPasteMode' = ~cancel
    /\ pastedText' = IF cancel THEN NoPaste ELSE pastedText
    /\ QA_rest
    /\ UNCHANGED <<processing, activeDoc, messages, lastAlert, pdfBase64, pendingPdfName,
                   extractionStatus, pickPc, indexPc, ingest, ext, extHist, indexed>>

\* onChangeText={setPastedText}
QA_setPastedText(t) ==
    /\ screen = "qa"
    /\ QA_NoModal
    /\ ~QA_SystemDialog
    /\ activeDoc = 0
    /\ showPasteMode
    /\ pastedText # t
    /\ pastedText' = t
    /\ QA_rest
    /\ UNCHANGED <<processing, activeDoc, messages, lastAlert, pdfBase64, pendingPdfName,
                   extractionStatus, pickPc, indexPc, ingest, ext, extHist, indexed,
                   showPasteMode>>

\* handlePasteTextSubmit, up to await createFromText; its button is disabled while
\* pastedText.length < 50 || processing
QA_handlePasteTextSubmit ==
    /\ screen = "qa"
    /\ QA_NoModal
    /\ ~QA_SystemDialog
    /\ activeDoc = 0
    /\ showPasteMode
    /\ ~(pastedText.len < PasteMinChars \/ processing)
    /\ ingest < MaxIngest
    /\ IF pastedText.blank \/ pastedText.len < PasteMinChars
       THEN /\ lastAlert' = "Error"
            /\ UNCHANGED <<processing, indexPc, ingest, extHist>>
       ELSE /\ processing' = TRUE
            /\ indexPc' = [ pc |-> "paste_create", len |-> pastedText.len, pageCount |-> 0 ]
            /\ QA_NewIngestion
            /\ UNCHANGED lastAlert
    /\ QA_rest
    /\ UNCHANGED <<activeDoc, messages, pdfBase64, pendingPdfName, extractionStatus,
                   pickPc, ext, indexed, showPasteMode, pastedText>>

\* handlePasteTextSubmit: createFromText resolved (ok) or threw, and the finally block
QA_PasteCreateEnded(ok) ==
    /\ indexPc.pc = "paste_create"
    /\ indexPc' = NoIndexing
    /\ processing' = FALSE
    /\ IF ok
       THEN /\ indexed' = indexed \cup {ingest}
            /\ activeDoc' = ingest
            /\ showPasteMode' = FALSE
            /\ pastedText' = NoPaste
            /\ messages' = <<SystemMessage>>
            /\ UNCHANGED lastAlert
       ELSE /\ lastAlert' = "Error"
            /\ UNCHANGED <<indexed, activeDoc, showPasteMode, pastedText, messages>>
    /\ QA_rest
    /\ UNCHANGED <<pdfBase64, pendingPdfName, extractionStatus, pickPc, ingest, ext,
                   extHist>>

\* the close-circle button of the chat header: setActiveDoc(null)
QA_CloseDocument ==
    /\ screen = "qa"
    /\ QA_NoModal
    /\ activeDoc # 0
    /\ activeDoc' = 0
    /\ QA_rest
    /\ UNCHANGED <<processing, messages, lastAlert, pdfBase64, pendingPdfName,
                   extractionStatus, pickPc, indexPc, ingest, ext, extHist, indexed,
                   showPasteMode, pastedText>>

(***************************************************************************)
(* The conversation of PDFQAScreen                                         *)
(***************************************************************************)
\* handleSend of PDFQAScreen, up to await askQuestion; dispatch(askPDFQuestion)
\* raises state.ai.isProcessing until the thunk has ended
QA_handleSend ==
    /\ screen = "qa"
    /\ QA_NoModal
    /\ ~isLoading
    /\ sends < MaxQuestions
    /\ ingestionUnchanged
    /\ IF inputText = 0 \/ activeDoc = 0
       THEN UNCHANGED <<messages, lastAlert, isTextModelReady, isProcessing, inputText,
                        sends, calls,
                        pending, delivered, sendAlerts>>
       ELSE IF ~isTextModelReady
       THEN /\ lastAlert' = "Model Not Ready"
            /\ UNCHANGED <<messages, isTextModelReady, isProcessing, inputText, sends,
                           calls, pending, delivered,
                           sendAlerts>>
       ELSE /\ inputText' = 0
            /\ messages' = Submitted(messages, sends + 1)
            /\ sends' = sends + 1
            /\ calls' = calls + 1
            /\ pending' = pending \cup
                   { [ id |-> sends + 1, text |-> inputText, doc |-> activeDoc ] }
            /\ UNCHANGED delivered
            /\ isProcessing' = TRUE
            /\ UNCHANGED <<lastAlert, isTextModelReady, sendAlerts>>

\* prev.map(msg => msg.id === thinkingId ? answer : msg), thinkingId being
\* 'thinking' for every submission
QA_AnswerInPlace(msgs, id) ==
    [ i \in DOMAIN msgs |->
        IF msgs[i].role = "thinking" THEN [ role |-> "answer", q |-> id ] ELSE msgs[i] ]

\* handleSend of PDFQAScreen: askQuestion resolved (ok), or threw
askQuestionEnded(r, ok) ==
    /\ screen = "qa"
    /\ r \in pending
    /\ pending' = pending \ {r}
    /\ delivered' = IF ok THEN delivered \cup { Delivery(r) } ELSE delivered
    /\ IF ok
       THEN messages' = QA_AnswerInPlace(messages, r.id) /\ UNCHANGED lastAlert
       ELSE messages' = WithoutThinking(messages) /\ lastAlert' = "Error"
    /\ ingestionUnchanged
    /\ isProcessing' = FALSE
    /\ UNCHANGED <<isTextModelReady, inputText, sends, calls, sendAlerts>>

\* the steps of PDFQAScreen alone
QAOnly ==
    \/ QA_PickStart
    \/ \E alert \in BOOLEAN : QA_PickEnded(alert)
    \/ QA_PickChosen
    \/ QA_ReadResolved
    \/ QA_ReadRejected
    \/ QA_PDFCreateResolved
    \/ QA_PDFCreateRejected
    \/ QA_AlertOK
    \/ \E viaAlert \in BOOLEAN : QA_handleCameraScan(viaAlert)
    \/ \E granted \in BOOLEAN : QA_PermissionResolved(granted)
    \/ \E canceled \in BOOLEAN : QA_CameraResolved(canceled)
    \/ \E len \in CameraLens : QA_CameraOCRResolved(len)
    \/ QA_CameraThrew
    \/ QA_CameraCreateResolved
    \/ \E cancel \in BOOLEAN : QA_setShowPasteMode(cancel)
    \/ \E t \in PastedTexts : QA_setPastedText(t)
    \/ QA_handlePasteTextSubmit
    \/ \E ok \in BOOLEAN : QA_PasteCreateEnded(ok)
    \/ QA_CloseDocument
    \/ QA_handleSend
    \/ \E r \in Questions, ok \in BOOLEAN : askQuestionEnded(r, ok)

(***************************************************************************)
(* Specification                                                           *)
(***************************************************************************)
Next ==
    \/ PickStart
    \/ PickCanceled
    \/ PickFailed
    \/ \E n \in 1..MaxDocPages : PickChosen(n)
    \/ ReadResolved
    \/ ReadRejected
    \/ CloseDocument
    \/ handleRAGProgress
    \/ PDFJSCreateResolved
    \/ PDFJSStatsResolved
    \/ PDFJSIndexRejected
    \/ OCRCreateResolved
    \/ OCRCreateRejected
    \/ PDFExtractor_effect
    \/ loadHTMLResolved
    \/ loadHTMLRejected
    \/ \E m \in WebMessages : PDFExtractor_handleMessage(m)
    \/ PDFExtractor_handleError
    \/ PDFOCRFallback_effect
    \/ renderWaitOver
    \/ \E ok \in BOOLEAN : captureRef(ok)
    \/ \E t \in PageTexts : recognized(t)
    \/ recognizeFailed
    \/ handleLoadComplete
    \/ \E repeat \in BOOLEAN : handlePageChanged(repeat)
    \/ pageReadyTimer
    \/ PDFOCRFallback_handleError
    \/ orphanWaitOver
    \/ \E ok \in BOOLEAN : orphanCaptureRef(ok)
    \/ orphanRecognized

Spec == Init /\ [][Next]_vars

\* AskScreen with its conversation
AskNext == Next \/ AskChat

SpecAsk == Init /\ [][AskNext]_vars

\* either screen, each with its ingestion and its conversation
AppInit == \E s \in {"ask", "qa"} : InitScreen(s) /\ NoRetrieval /\ NoServices

AppNext == AskNext \/ QAOnly

SpecApp == AppInit /\ [][AppNext]_vars

(***************************************************************************)
(* Retriever: retrieve(index, question, k)                                 *)
(***************************************************************************)
Terms == 1..MaxTerms

\* a chunk of the index: termFrequency(chunk, term) for every term
ChunkEntries == [ Terms -> 0..MaxTf ]

\* the indexes of up to MaxChunks chunks; the chunk at position i has ordinal i
Indexes == UNION { [ 1..n -> ChunkEntries ] : n \in 0..MaxChunks }

\* 1000 * log(1 + totalChunks / documentFrequency), rounded, at
\* [totalChunks][documentFrequency]
IdfTable ==
    << << 693 >>,
       << 1099, 693 >>,
       << 1386, 916, 693 >>,
       << 1609, 1099, 847, 693 >>,
       << 1792, 1253, 981, 811, 693 >>,
       << 1946, 1386, 1099, 916, 788, 693 >> >>

\* documentFrequency(term): the chunks the term occurs in
documentFrequency(index, t) == Cardinality({ i \in DOMAIN index : index[i][t] > 0 })

\* idf(term) = log(1 + totalChunks / documentFrequency(term))
idf(index, t) == IdfTable[Len(index)][documentFrequency(index, t)]

\* the sum over the question's terms 1..n of termFrequency(chunk, term) * idf(term)
RECURSIVE ScoreUpTo(_, _, _, _)
ScoreUpTo(index, i, q, n) ==
    IF n = 0 THEN 0
    ELSE ScoreUpTo(index, i, q, n - 1)
           + (IF n \in q /\ index[i][n] > 0 THEN index[i][n] * idf(index, n) ELSE 0)

score(index, i, q) == ScoreUpTo(index, i, q, MaxTerms)

\* the candidate chunks: any chunk sharing at least one term with the question
Candidates(index, q) == { i \in DOMAIN index : \E t \in q : index[i][t] > 0 }

\* variant: ties are broken by descending chunk ordinal
Before_LaterFirst(index, q, i, j) ==
    \/ score(index, i, q) > score(index, j, q)
    \/ score(index, i, q) = score(index, j, q) /\ i > j

\* chunk i is ranked before chunk j: descending score, ties by ascending ordinal
Before(index, q, i, j) ==
    \/ score(index, i, q) > score(index, j, q)
    \/ score(index, i, q) = score(index, j, q) /\ i < j

\* the chunks of S in rank order
RECURSIVE Ranked(_, _, _)
Ranked(index, q, S) ==
    IF S = {} THEN <<>>
    ELSE LET best == CHOOSE i \in S : \A j \in S \ {i} : Before(index, q, i, j)
         IN  << [ chunk |-> best, score |-> score(index, best, q) ] >>
                 \o Ranked(index, q, S \ {best})

\* variant: every chunk of the index is a candidate, so that the result is
\* filled up to k with chunks that share no term with the question
retrieve_Padded(index, q, k) ==
    LET ranked == Ranked(index, q, DOMAIN index)
    IN  SubSeq(ranked, 1, IF k < Len(ranked) THEN k ELSE Len(ranked))

\* retrieve(index, question, k): the top k candidates
retrieve(index, q, k) ==
    LET ranked == Ranked(index, q, Candidates(index, q))
    IN  SubSeq(ranked, 1, IF k < Len(ranked) THEN k ELSE Len(ranked))

\* a question is put to an index
Retrieve(q, k) ==
    /\ query' = [ asked |-> TRUE, q |-> q, k |-> k ]
    /\ retrieved' = retrieve(docIndex, q, k)
    /\ UNCHANGED <<docIndex, serviceVars, dialogVars, indexed, screenVars, pdfBase64,
                   useOCRFallback,
                   extractionStatus, indexPc, pickVars, ext, ocrSide, extHist>>

RetrieveInit ==
    /\ InitScreen("ask")
    /\ docIndex \in Indexes
    /\ query = NoQuery
    /\ retrieved = <<>>
    /\ NoServices

RetrieveNext == \E q \in SUBSET Terms, k \in 0..MaxK : Retrieve(q, k)

SpecRetrieve == RetrieveInit /\ [][RetrieveNext]_vars

(***************************************************************************)
(* Indexer: build(chunks); Answer Composer: answer(question, retrieval,    *)
(* documentId)                                                             *)
(***************************************************************************)
MaxBuilds == 2

\* the pages the n chunks of an index lie on: in reading order, none beyond the
\* cap on the pages that are recognized
ChunkPages(n) ==
    { p \in [ 1..n -> 1..MaxCap ] : \A i, j \in 1..n : i < j => p[i] <= p[j] }

\* what the steps of the Indexer and the Answer Composer leave alone
indexRest ==
    UNCHANGED <<api, dialogVars, indexed, screenVars, pdfBase64, useOCRFallback,
                extractionStatus, indexPc, pickVars, ext, ocrSide, extHist>>

\* build(chunks) is called: the postings start empty
build_Start ==
    /\ indexer.pc \in {"none", "built"}
    /\ indexer.builds < MaxBuilds
    /\ indexer' = [ indexer EXCEPT !.pc = "building", !.built = {}, !.postings = {} ]
    /\ UNCHANGED <<docIndex, query, retrieved, composed>>
    /\ indexRest

\* variant of build_Chunk: an entry carries the position at which its chunk was
\* taken up, not the chunk's ordinal
build_Chunk_ByArrival(i) ==
    /\ indexer.pc = "building"
    /\ i \in DOMAIN docIndex \ indexer.built
    /\ indexer' =
          [ indexer EXCEPT
              !.built = @ \cup {i},
              !.postings = @ \cup
                  { [ term |-> t, chunkId |-> Cardinality(indexer.built) + 1,
                      frequency |-> docIndex[i][t] ] :
                        t \in { u \in Terms : docIndex[i][u] > 0 } } ]
    /\ UNCHANGED <<docIndex, query, retrieved, composed>>
    /\ indexRest

\* build: the term frequencies of chunk i are recorded in the postings of its
\* terms; the chunks are taken up in any order
build_Chunk(i) ==
    /\ indexer.pc = "building"
    /\ i \in DOMAIN docIndex \ indexer.built
    /\ indexer' =
          [ indexer EXCEPT
              !.built = @ \cup {i},
              !.postings = @ \cup
                  { [ term |-> t, chunkId |-> i, frequency |-> docIndex[i][t] ] :
                        t \in { u \in Terms : docIndex[i][u] > 0 } } ]
    /\ UNCHANGED <<docIndex, query, retrieved, composed>>
    /\ indexRest

\* build returns the DocumentIndex once every chunk was taken up
build_Finish ==
    /\ indexer.pc = "building"
    /\ indexer.built = DOMAIN docIndex
    /\ indexer' = [ indexer EXCEPT
                      !.pc = "built",
                      !.builds = @ + 1,
                      !.first = IF indexer.builds = 0 THEN indexer.postings ELSE @ ]
    /\ UNCHANGED <<docIndex, query, retrieved, composed>>
    /\ indexRest

\* the elements of s in order, each at its first occurrence only
RECURSIVE Deduplicated(_)
Deduplicated(s) ==
    IF s = <<>> THEN <<>>
    ELSE LET rest == Deduplicated(SubSeq(s, 1, Len(s) - 1))
             last == s[Len(s)]
         IN  IF \E i \in DOMAIN rest : rest[i] = last THEN rest ELSE Append(rest, last)

\* variant of answer: an empty retrieval is an error
answer_FailsWithoutContext(q, retrieval, pages) ==
    [ asked   |-> TRUE,
      failed  |-> retrieval = <<>>,
      prompt  |-> [ kind |-> IF retrieval = <<>> THEN "none" ELSE "context",
                    question |-> q ],
      context |-> [ r \in DOMAIN retrieval |-> retrieval[r].chunk ],
      sources |-> Deduplicated([ r \in DOMAIN retrieval |-> pages[retrieval[r].chunk] ]) ]

\* answer(question, retrieval, documentId): the retrieved chunks in score order
\* are the context of the prompt, or the prompt is the "no relevant context
\* found" one; sources are the pages of the cited chunks, each once
answer(q, retrieval, pages) ==
    [ asked   |-> TRUE,
      failed  |-> FALSE,
      prompt  |-> [ kind |-> IF retrieval = <<>> THEN "no_context" ELSE "context",
                    question |-> q ],
      context |-> [ r \in DOMAIN retrieval |-> retrieval[r].chunk ],
      sources |-> Deduplicated([ r \in DOMAIN retrieval |-> pages[retrieval[r].chunk] ]) ]

\* ask(documentId, question): retrieve, then answer
ask(q, k) ==
    /\ indexer.pc = "built"
    /\ query' = [ asked |-> TRUE, q |-> q, k |-> k ]
    /\ retrieved' = retrieve(docIndex, q, k)
    /\ composed' = answer(q, retrieved', indexer.pages)
    /\ UNCHANGED <<docIndex, indexer>>
    /\ indexRest

IndexInit ==
    /\ InitScreen("ask")
    /\ docIndex \in Indexes
    /\ query = NoQuery
    /\ retrieved = <<>>
    /\ indexer \in { [ NoIndexer EXCEPT !.pages = p ] : p \in ChunkPages(Len(docIndex)) }
    /\ composed = NoAnswer
    /\ api = ApiIdle(FALSE)

IndexNext ==
    \/ build_Start
    \/ \E i \in 1..MaxChunks : build_Chunk(i)
    \/ build_Finish
    \/ \E q \in SUBSET Terms, k \in 0..MaxK : ask(q, k)

SpecIndex == IndexInit /\ [][IndexNext]_vars

(***************************************************************************)
(* ApiMiddleware.execute, ApiMiddleware.handleFetch and                    *)
(* apiService.chat.sendQuery                                               *)
(***************************************************************************)
MaxApiCalls == 2

\* the mockResponse argument of handleFetch: left out, a value the test
\* if (mockResponse) takes for false (null, 0, "", false), or one it takes for
\* true
MockResponses == {"undefined", "falsy", "truthy"}

\* if (mockResponse)
Truthy(m) == m = "truthy"

\* what the steps of ApiMiddleware and apiService leave alone
apiRest ==
    UNCHANGED <<retrievalVars, indexer, composed, dialogVars, indexed, screenVars,
                pdfBase64, useOCRFallback, extractionStatus, indexPc, pickVars, ext,
                ocrSide, extHist>>

\* a call begins: none is under way
Invoked(op, m) ==
    [ NoInvocation EXCEPT !.op = op, !.mockResponse = m ]

\* the call under way returns or throws: outcome is what its caller gets
Returned(inv, outcome) ==
    [ api EXCEPT
        !.inv = NoInvocation,
        !.log = Append(@, [ op |-> inv.op, mockResponse |-> inv.mockResponse,
                            apiCalls |-> inv.apiCalls, mockCalls |-> inv.mockCalls,
                            fetches |-> inv.fetches, imports |-> inv.imports,
                            realFailed |-> inv.realFailed, outcome |-> outcome ]) ]

CanInvoke == api.inv.pc = "idle" /\ Len(api.log) < MaxApiCalls

\* ApiMiddleware.execute(apiCall, mockCall, endpointName), up to its first await
ApiMiddleware_execute ==
    /\ CanInvoke
    /\ api' = [ api EXCEPT !.inv =
                  IF api.FORCE_MOCK_MODE
                  THEN [ Invoked("execute", "undefined") EXCEPT
                           !.pc = "mockCall", !.mockCalls = 1 ]
                  ELSE [ Invoked("execute", "undefined") EXCEPT
                           !.pc = "apiCall", !.apiCalls = 1 ] ]
    /\ apiRest

\* await apiCall() resolved (ok), or threw: the catch returns mockCall()
execute_apiCallSettled(ok) ==
    /\ api.inv.op = "execute"
    /\ api.inv.pc = "apiCall"
    /\ api' = IF ok
              THEN Returned(api.inv, "real")
              ELSE [ api EXCEPT !.inv.pc = "mockCall",
                                !.inv.mockCalls = @ + 1,
                                !.inv.realFailed = TRUE ]
    /\ apiRest

\* the promise of mockCall() settled: execute and sendQuery return it as it is
mockCallSettled(ok) ==
    /\ api.inv.pc = "mockCall"
    /\ api' = Returned(api.inv, IF ok THEN "mock" ELSE "mock_threw")
    /\ apiRest

\* ApiMiddleware.handleFetch(input, init, mockResponse), up to await fetch
ApiMiddleware_handleFetch(m) ==
    /\ CanInvoke
    /\ api' = IF api.FORCE_MOCK_MODE /\ Truthy(m)
              THEN Returned(Invoked("handleFetch", m), "mock_response")
              ELSE [ api EXCEPT !.inv = [ Invoked("handleFetch", m) EXCEPT
                                            !.pc = "fetch", !.fetches = 1 ] ]
    /\ apiRest

\* variant of handleFetch_fetchSettled: a response is returned whatever its status
handleFetch_fetchSettled_AnyStatus(res) ==
    /\ api.inv.op = "handleFetch"
    /\ api.inv.pc = "fetch"
    /\ api' = IF res = "ok"
              THEN Returned(api.inv, "response_ok")
              ELSE IF res = "not_ok"
              THEN Returned([ api.inv EXCEPT !.realFailed = TRUE ], "response_not_ok")
              ELSE IF Truthy(api.inv.mockResponse)
              THEN Returned([ api.inv EXCEPT !.realFailed = TRUE ], "mock_response")
              ELSE Returned([ api.inv EXCEPT !.realFailed = TRUE ], "threw")
    /\ apiRest

\* await fetch(input, init) resolved with an OK response ("ok"), resolved with
\* another status ("not_ok": the handler throws), or threw ("threw"); the catch
\* answers with the mock response or throws again
handleFetch_fetchSettled(res) ==
    /\ api.inv.op = "handleFetch"
    /\ api.inv.pc = "fetch"
    /\ api' = IF res = "ok"
              THEN Returned(api.inv, "response_ok")
              ELSE IF Truthy(api.inv.mockResponse)
              THEN Returned([ api.inv EXCEPT !.realFailed = TRUE ], "mock_response")
              ELSE Returned([ api.inv EXCEPT !.realFailed = TRUE ], "threw")
    /\ apiRest

\* apiService.chat.sendQuery(userId, sessionId, query), up to its first await
apiService_chat_sendQuery ==
    /\ CanInvoke
    /\ api' = [ api EXCEPT !.inv =
                  IF api.FORCE_MOCK_MODE
                  THEN [ Invoked("sendQuery", "undefined") EXCEPT
                           !.pc = "mockCall", !.mockCalls = 1 ]
                  ELSE [ Invoked("sendQuery", "undefined") EXCEPT
                           !.pc = "import", !.imports = 1 ] ]
    /\ apiRest

\* await getActualApis(): the imports resolved (ok) and the real sendQuery is
\* called, or one threw, getActualApis returned null and the mock is called
getActualApisSettled(ok) ==
    /\ api.inv.op = "sendQuery"
    /\ api.inv.pc = "import"
    /\ api' = IF ok
              THEN [ api EXCEPT !.inv.pc = "apiCall", !.inv.apiCalls = @ + 1 ]
              ELSE [ api EXCEPT !.inv.pc = "mockCall", !.inv.mockCalls = @ + 1,
                                !.inv.realFailed = TRUE ]
    /\ apiRest

\* await apis.chat.sendQuery(...) resolved (ok), or threw: the catch returns
\* the mock's sendQuery
sendQuery_apiCallSettled(ok) ==
    /\ api.inv.op = "sendQuery"
    /\ api.inv.pc = "apiCall"
    /\ api' = IF ok
              THEN Returned(api.inv, "real")
              ELSE [ api EXCEPT !.inv.pc = "mockCall",
                                !.inv.mockCalls = @ + 1,
                                !.inv.realFailed = TRUE ]
    /\ apiRest

\* isDeployed decides FORCE_MOCK_MODE when the module is loaded
ApiInit ==
    /\ InitScreen("ask")
    /\ NoRetrieval
    /\ indexer = NoIndexer
    /\ composed = NoAnswer
    /\ api \in { ApiIdle(force) : force \in BOOLEAN }

ApiNext ==
    \/ ApiMiddleware_execute
    \/ \E ok \in BOOLEAN : execute_apiCallSettled(ok)
    \/ \E ok \in BOOLEAN : mockCallSettled(ok)
    \/ \E m \in MockResponses : ApiMiddleware_handleFetch(m)
    \/ \E res \in {"ok", "not_ok", "threw"} : handleFetch_fetchSettled(res)
    \/ apiService_chat_sendQuery
    \/ \E ok \in BOOLEAN : getActualApisSettled(ok)
    \/ \E ok \in BOOLEAN : sendQuery_apiCallSettled(ok)

SpecApi == ApiInit /\ [][ApiNext]_vars

(***************************************************************************)
(* Properties                                                              *)
(***************************************************************************)
\* pages of the capture calls, in the order of the calls
PagesCaptured == [ i \in 1..Len(pageLog) |-> pageLog[i].page ]

\* 1, 2, ..., n
UpTo(n) == [ i \in 1..n |-> i ]

\* C1: in an ingestion whose structured extraction delivered success = true and
\* at least 50 characters, the OCR path is never started: PDFOCRFallback is not
\* mounted and no page is captured or recognized.
C1_NoOCRAfterUsableText ==
    (\E i \in DOMAIN extracted :
          extracted[i].success /\ extracted[i].len >= MinUsableChars)
        => ~ocr.mounted /\ ~useOCRFallback /\ pageLog = <<>>

C1_Witness ==
    /\ \E i \in DOMAIN extracted : extracted[i].success /\ extracted[i].len = MinUsableChars
    /\ processing
    /\ ext.hasExtracted

\* C2: when finishExtraction delivers the result, the pages captured are exactly
\* 1..min(totalPages, maxPages), each once and in ascending order, for every
\* totalPages >= 1 and every maxPages >= 0.
C2_PagesUpToCap ==
    \A i \in DOMAIN completions :
        completions[i].via = "finishExtraction"
            => PagesCaptured = UpTo(Min(completions[i].totalPages, completions[i].maxPages))

\* C3: a fault while rendering, capturing or recognizing a page is not fatal to
\* the loop: the page contributes no text and, once the loop has reached its
\* first page, every page up to min(totalPages, maxPages) is processed before the
\* result is delivered.
C3_PageFaultNotFatal ==
    \A i \in DOMAIN completions :
        LET c == completions[i]
        IN  (c.totalPages >= 1 /\ c.maxPages >= 1 /\ pageLog # <<>>)
                => /\ Len(pageLog) >= Min(c.totalPages, c.maxPages)
                   /\ \A j \in DOMAIN pageLog :
                          pageLog[j].res \in {"captureFailed", "ocrFailed"}
                              => \A k \in DOMAIN c.accumulated :
                                     c.accumulated[k].page # pageLog[j].page

\* C4: a failure result is delivered only when the text accumulated over the
\* document is not usable (length <= 50), and a result never discards text that
\* was accumulated.
C4_FailureOnlyWithoutUsableText ==
    \A i \in DOMAIN completions :
        LET c == completions[i]
        IN  /\ ~c.result.success => CombinedLen(c.accumulated) <= MinUsableChars
            /\ c.result.text = c.accumulated

\* C5: onComplete is invoked at most once for an instance, and no invocation of
\* processCurrentPage starts after onComplete was invoked.
C5_CompleteOnceAndFinal ==
    /\ [](Len(completions) <= 1)
    /\ [][completions # <<>> => ocr'.inFlight <= ocr.inFlight]_vars

C5_Witness ==
    /\ Len(completions) = 1
    /\ ocr.mounted
    /\ ocr.pageReady
    /\ ~ocr.effectPending
    /\ ocr.inFlight = 0

\* C6: at most one invocation of processCurrentPage is in flight.
C6_OnePageAtATime == ocr.inFlight <= 1

C6_Witness ==
    /\ ocr.inFlight = 1
    /\ ocr.procPage = 2
    /\ ocr.timers > 0

\* C7: page N is captured only when the renderer has reported page N: every
\* capture call finds the reported page equal to the page it is made for.
C7_CaptureAfterPageReported ==
    \A i \in DOMAIN pageLog : pageLog[i].shown = pageLog[i].page

\* C8: when totalPages > maxPages >= 1, the result of finishExtraction differs from
\* the result for a document of exactly maxPages pages with the same page texts.
C8_TruncationVisible ==
    \A i \in DOMAIN completions :
        LET c == completions[i]
        IN  (c.via = "finishExtraction" /\ c.totalPages > c.maxPages /\ c.maxPages >= 1)
                => c.result # FinishResult(c.maxPages, c.maxPages, c.accumulated)

\* C9: once a structured result was delivered, a pending ingestion is either
\* indexing the text or has an extractor at work.
C9_ResultLeadsToOutcome ==
    (processing /\ extracted # <<>>)
        => \/ indexPc.pc # "none"
           \/ ocr.mounted
           \/ (ext.html # "none" /\ ~ext.hasExtracted)

\* C10 as stated: every fault of the structured path is converted into a
\* failure result delivered through onExtracted.
C10_EveryFaultDelivered == faults.converted = faults.events

\* C10 as amended: a fault met before a result was accepted is delivered as
\* success = false, empty text, charCount 0; a WebView error met after a result
\* was accepted delivers nothing; no fault is thrown to the host.
C10_FaultBeforeAcceptDelivered ==
    [][faults'.events > faults.events
          => /\ IF ext.hasExtracted
                THEN extracted' = extracted
                ELSE extracted' = Append(extracted, FaultResult)
             /\ ~faults'.uncaught]_vars

C10_Witness ==
    /\ faults.events = 1
    /\ faults.converted = 1
    /\ extracted = <<FaultResult>>
    /\ ocr.mounted

\* pages of the capture calls whose recognition gave non-blank text, in order
PagesWithText ==
    LET withText(e) == e.res = "text"
        kept == SelectSeq(pageLog, withText)
    IN  [ i \in 1..Len(kept) |-> kept[i].page ]

\* C11: the result finishExtraction delivers has success = true exactly when the
\* accumulated text, markers and separators included, is longer than 50
\* characters, has a null error exactly when success is true, and its text is the
\* entries of the pages that gave text, in the order the pages were processed.
C11_FinishResultOfAccumulated ==
    \A i \in DOMAIN completions :
        LET c == completions[i]
        IN  c.via = "finishExtraction"
                => /\ c.result.success = (CombinedLen(c.accumulated) > MinUsableChars)
                   /\ c.result.error = ~c.result.success
                   /\ c.result.text = c.accumulated
                   /\ c.result.len = CombinedLen(c.accumulated)
                   /\ [ k \in 1..Len(c.result.text) |-> c.result.text[k].page ]
                          = PagesWithText

C11_Witness ==
    \E i \in DOMAIN completions :
        /\ completions[i].via = "finishExtraction"
        /\ completions[i].result.len = MinUsableChars
        /\ ~completions[i].result.success
        /\ Len(pageLog) = 2

\* the values setExtractionStatus receives while a document is indexed
IndexingStatuses == { "Indexing document with RAG...", "RAG progress" }

\* C18: within an ingestion no extraction-stage status is delivered once indexing
\* has started: from the start of indexing until the clean-up, and whenever an
\* indexing progress update is on display, the status is one of the indexing stage.
C18_ExtractionBeforeIndexing ==
    (indexPc.pc # "none" \/ ragProgress) => extractionStatus \in IndexingStatuses

C18_Witness ==
    /\ indexPc.pc = "ocr_create"
    /\ ragProgress
    /\ ocr.mounted
    /\ ocr.pageReady
    /\ ~ocr.effectPending

\* C12: a run the host has abandoned is inert: a step of an orphaned
\* processCurrentPage makes no capture call and no recognition call (no orphan
\* moves on to a further await), and changes nothing of the host or of the
\* instance that is mounted.
C12_AbandonedRunIsInert ==
    [][(zombies' # zombies /\ ocr' = ocr)
          => /\ zombies'.waiting   <= zombies.waiting
             /\ zombies'.capturing <= zombies.capturing
             /\ zombies'.captured  <= zombies.captured
             /\ UNCHANGED <<screenVars, pdfBase64, useOCRFallback, extractionStatus,
                            indexPc, pickVars, ext, extHist, ocrHist>>]_vars

\* an ingestion is past its picker and the screen has not ended it
IngestionInFlight ==
    \/ processing
    \/ pdfBase64
    \/ useOCRFallback
    \/ indexPc.pc # "none"

\* C13: on either screen an ingestion starts only while no document is active
\* and no other ingestion is in flight, and a step that makes a document active
\* fills the empty slot with the document of the ingestion that completed and
\* leaves the conversation with the system message alone.
C13_OneActiveDocument ==
    [][/\ (ingest' # ingest \/ (pickPc = "idle" /\ pickPc' # "idle"))
              => activeDoc = 0 /\ ~IngestionInFlight
       /\ (activeDoc' # activeDoc /\ activeDoc' # 0)
              => /\ activeDoc = 0
                 /\ activeDoc' = ingest
                 /\ messages' = <<SystemMessage>>]_vars

C13_Witness ==
    /\ ingest = 2
    /\ activeDoc = 2
    /\ messages = <<SystemMessage>>
    /\ sends = 1

\* C14: the document in the active slot is always one whose createFromText has
\* resolved; a request to the answering service carries the id of the document
\* that is active at the submission, and while no document is active no request
\* is issued, no question is counted as submitted and no message is added.
C14_QuestionOnlyForIndexedDocument ==
    [][/\ activeDoc' # 0 => activeDoc' \in indexed'
       /\ \A r \in pending' \ pending :
              r.doc = activeDoc /\ r.doc # 0 /\ r.doc \in indexed
       /\ calls' # calls => activeDoc # 0 /\ pending' # pending
       /\ (activeDoc = 0 /\ activeDoc' = 0)
              => /\ sends' = sends
                 /\ pending' \subseteq pending
                 /\ Len(messages') <= Len(messages)]_vars

C14_Witness ==
    /\ \E r \in pending : r.doc = 2
    /\ indexed = {1, 2}

\* C15: while the model is not ready no request is issued to the answering
\* service, and the step that raises "Model Not Ready" is taken with the model
\* not ready and leaves the message list, the typed question and the set of
\* requests under way as they were.
C15_ModelNotReadyIsImmediate ==
    [][/\ ~isTextModelReady => calls' = calls /\ pending' = pending
       /\ (lastAlert' = "Model Not Ready" /\ lastAlert # "Model Not Ready")
              => /\ ~isTextModelReady
                 /\ messages' = messages
                 /\ inputText' = inputText
                 /\ sends' = sends]_vars

C15_Witness ==
    /\ lastAlert = "Model Not Ready"
    /\ ~isTextModelReady
    /\ inputText # 0
    /\ activeDoc # 0
    /\ calls = 0
    /\ messages = <<SystemMessage>>

\* C16: nothing is retried automatically: within an ingestion the extractor
\* delivers at most one result and no page is captured or recognized twice, the
\* answering service has been called exactly once for each submitted question,
\* and the step that takes a failed question's alert away ("Try Again" or "OK")
\* issues no request and changes nothing but, at most, the input field, which
\* then holds the text of that question.
C16_NoAutomaticRetry ==
    [][/\ Len(extracted') <= 1
       /\ \A i, j \in DOMAIN pageLog' : pageLog'[i].page = pageLog'[j].page => i = j
       /\ calls' = sends'
       /\ \A t \in sendAlerts \ sendAlerts' :
              /\ calls' = calls
              /\ pending' = pending
              /\ messages' = messages
              /\ inputText' \in {inputText, t}
              /\ ingestionUnchanged]_vars

C16_Witness ==
    /\ sends = 1
    /\ calls = 1
    /\ pending = {}
    /\ sendAlerts = {}
    /\ inputText = 1
    /\ messages = << SystemMessage, [ role |-> "user", q |-> 1 ] >>
    /\ Len(pageLog) = 2
    /\ Len(extracted) = 1

\* C17: on no ingestion path does a text shorter than the viability threshold of
\* 50 characters become the active document.
C17_NoDocumentBelowThreshold ==
    [][(activeDoc = 0 /\ activeDoc' # 0) => indexPc.len >= MinUsableChars]_vars

\* the chunks of the result, in its order
ResultChunks == [ r \in DOMAIN retrieved |-> retrieved[r].chunk ]

\* the chunks of the index in which some term of the question occurs
Overlapping == { i \in DOMAIN docIndex : \E t \in query.q : docIndex[i][t] > 0 }

\* C19: the result of retrieve(index, q, k) has at most k entries, every entry
\* is a chunk of the index in which a term of q occurs, no chunk is returned
\* twice, and the result has k entries unless fewer chunks overlap, in which case
\* it has exactly those.
C19_AtMostKAndOnlyOverlapping ==
    query.asked =>
        /\ Len(retrieved) <= query.k
        /\ \A r \in DOMAIN retrieved : ResultChunks[r] \in Overlapping
        /\ \A r, s \in DOMAIN retrieved : ResultChunks[r] = ResultChunks[s] => r = s
        /\ Len(retrieved) = IF query.k < Cardinality(Overlapping)
                            THEN query.k ELSE Cardinality(Overlapping)

C19_Witness ==
    /\ query.asked
    /\ query.k = 2
    /\ Len(docIndex) = 3
    /\ Cardinality(Overlapping) = 1
    /\ Len(retrieved) = 1

\* C20: the result is in descending order of score, two entries of equal score
\* are in ascending order of chunk ordinal, every entry carries the score of its
\* chunk, and no overlapping chunk that was left out has a higher score than a
\* returned one, or the same score and a smaller ordinal.
C20_DescendingScoreTiesByOrdinal ==
    query.asked =>
        /\ \A r \in DOMAIN retrieved :
               retrieved[r].score = score(docIndex, ResultChunks[r], query.q)
        /\ \A r, s \in DOMAIN retrieved :
               r < s => \/ retrieved[r].score > retrieved[s].score
                        \/ /\ retrieved[r].score = retrieved[s].score
                           /\ ResultChunks[r] < ResultChunks[s]
        /\ \A i \in Overlapping, r \in DOMAIN retrieved :
               (\A s \in DOMAIN retrieved : ResultChunks[s] # i)
                   => \/ score(docIndex, i, query.q) < retrieved[r].score
                      \/ /\ score(docIndex, i, query.q) = retrieved[r].score
                         /\ i > ResultChunks[r]

C20_Witness ==
    /\ query.asked
    /\ Len(retrieved) = 2
    /\ Cardinality(Overlapping) = 3
    /\ retrieved[1].score > retrieved[2].score
    /\ ResultChunks[1] > ResultChunks[2]
    /\ \E i \in Overlapping :
           /\ i > ResultChunks[2]
           /\ score(docIndex, i, query.q) = retrieved[2].score

\* C23: for one pdfBase64 value onExtracted is invoked at most once: a step in
\* which PDFExtractor delivers a result is its first delivery of the ingestion,
\* whatever messages and error events the WebView sends before or after it.
C23_OnExtractedAtMostOnce ==
    [][(ingest' = ingest /\ extracted' # extracted)
          => extracted = <<>> /\ Len(extracted') = 1]_vars

C23_Witness ==
    /\ ext.html = "ready"
    /\ ext.hasExtracted
    /\ ext.events = 2
    /\ Len(extracted) = 1
    /\ faults.events = 1

\* C24: the accumulator of the mounted PDFOCRFallback holds entries whose page
\* numbers are strictly increasing (so at most one entry per page) and lie in
\* 1..min(totalPages, maxPages), each for a page whose recognized text was not
\* blank.
C24_AccumulatorWellFormed ==
    LET a == ocr.extractedTexts
        last == IF ocr.totalPages < ocr.maxPages THEN ocr.totalPages ELSE ocr.maxPages
    IN  /\ \A i \in DOMAIN a : a[i].page \in 1..last
        /\ \A i, j \in DOMAIN a : i < j => a[i].page < a[j].page
        /\ \A i \in DOMAIN a :
               \E l \in DOMAIN pageLog :
                   pageLog[l].page = a[i].page /\ pageLog[l].res = "text"

\* C27: on AskScreen PDFExtractor and PDFOCRFallback are never mounted together,
\* and either is mounted only while processing is true.
C27_OneExtractorWhileProcessing ==
    /\ ~(ext.html # "none" /\ ocr.mounted)
    /\ (ext.html # "none" \/ ocr.mounted) => processing

C27_Witness ==
    /\ ocr.mounted
    /\ ocr.procPc = "capturing"
    /\ ext.html = "none"
    /\ processing
    /\ Len(extracted) = 1

\* a step in which the indexing that follows an extraction ends without a document
IndexingFailed ==
    /\ indexPc.pc \in {"pdfjs_create", "pdfjs_stats", "ocr_create", "qa_pdf_create"}
    /\ indexPc'.pc = "none"
    /\ ~(activeDoc = 0 /\ activeDoc' # 0)

\* C28: when createFromText (or the statistics query that follows it) fails, no
\* document becomes active, the conversation is left as it was, the failure is
\* reported by an alert, and the ingestion state is reset: processing is false,
\* no extractor is mounted, no status and no indexing progress is shown.
C28_IndexingFailureResets ==
    [][IndexingFailed
          => /\ activeDoc' = activeDoc
             /\ messages' = messages
             /\ lastAlert' = "Error"
             /\ ~processing'
             /\ ext'.html = "none"
             /\ ~ocr'.mounted
             /\ ~pdfBase64'
             /\ ~useOCRFallback'
             /\ ~ragProgress'
             /\ extractionStatus' = ""]_vars

C28_Witness ==
    /\ screen = "qa"
    /\ ingest = 2
    /\ indexed = {1}
    /\ Len(extracted) = 1
    /\ extracted[1].success
    /\ lastAlert = "Error"
    /\ activeDoc = 0
    /\ Len(messages) = 3
    /\ ~processing

\* the messages of the list msgs that belong to question id, and the others
OfQuestion(msgs, id)  == SelectSeq(msgs, LAMBDA x : x.q = id)
NotOfQuestion(msgs, id) == SelectSeq(msgs, LAMBDA x : x.q # id)

\* C25: questions in flight together are resolved independently: the step that
\* ends the wait for one question leaves the messages of every other question,
\* and their order, as they were, and of its own messages it changes at most the
\* placeholder, which an answer replaces in place or which is removed.
C25_QuestionsResolvedIndependently ==
    [][\A r \in pending \ pending' :
          /\ NotOfQuestion(messages', r.id) = NotOfQuestion(messages, r.id)
          /\ \/ messages' = messages
             \/ /\ OfQuestion(messages, r.id)
                      = << [ role |-> "user", q |-> r.id ], [ role |-> "thinking", q |-> r.id ] >>
                /\ OfQuestion(messages', r.id)
                      \in { << [ role |-> "user", q |-> r.id ] >>,
                            << [ role |-> "user", q |-> r.id ],
                               [ role |-> "answer", q |-> r.id ] >> }]_vars

C21_PostingsDeterministic ==
    /\ \A e \in indexer.postings : e.chunkId \in DOMAIN docIndex
    /\ (indexer.pc = "built" /\ indexer.builds >= 1) => indexer.postings = indexer.first

\* the index of three chunks was built twice and has entries of all of them
C21_Witness ==
    /\ indexer.pc = "built"
    /\ indexer.builds = 2
    /\ Len(docIndex) = 3
    /\ \A i \in 1..3 : \E e \in indexer.postings : e.chunkId = i

Invocations == { api.log[i] : i \in DOMAIN api.log } \cup { api.inv }

\* C29: with FORCE_MOCK_MODE true no call of ApiMiddleware.execute,
\* ApiMiddleware.handleFetch or apiService.chat.sendQuery, whatever its
\* arguments, invokes the real API function, imports the real API modules or
\* calls fetch.
C29_ForcedMockMakesNoRealCall ==
    api.FORCE_MOCK_MODE =>
        \A e \in Invocations : e.apiCalls = 0 /\ e.imports = 0 /\ e.fetches = 0

\* the calls of ApiMiddleware that have returned or thrown
Completed(op) == { e \in { api.log[i] : i \in DOMAIN api.log } : e.op = op }

\* execute outside forced mock mode: one real call, the mock called exactly when
\* it failed, and the failure of the real call never the outcome
ExecuteFallsBack ==
    \A e \in Completed("execute") :
        /\ e.apiCalls = 1
        /\ e.mockCalls = IF e.realFailed THEN 1 ELSE 0
        /\ e.outcome = "real" <=> ~e.realFailed
        /\ e.outcome \in {"real", "mock", "mock_threw"}

\* C30 as stated: outside forced mock mode execute calls the real API once and
\* falls back to the mock exactly when that call fails; handleFetch calls fetch
\* once, never returns a response that is not OK and, when fetch fails or the
\* status is not OK, returns the mock response if one was given and throws the
\* failure again if none was.
C30_FallsBackWhenMockGiven ==
    ~api.FORCE_MOCK_MODE =>
        /\ ExecuteFallsBack
        /\ \A e \in Completed("handleFetch") :
              /\ e.fetches = 1
              /\ e.outcome # "response_not_ok"
              /\ e.outcome = "response_ok" <=> ~e.realFailed
              /\ e.realFailed =>
                    e.outcome = IF e.mockResponse # "undefined"
                                THEN "mock_response" ELSE "threw"

\* C30, amended: as above, but handleFetch returns the mock response if the one
\* given passes the test if (mockResponse), and throws the failure again for a
\* mock response that is left out or is null, 0, "" or false.
C30_FallsBackWhenMockTruthy ==
    ~api.FORCE_MOCK_MODE =>
        /\ ExecuteFallsBack
        /\ \A e \in Completed("handleFetch") :
              /\ e.fetches = 1
              /\ e.outcome # "response_not_ok"
              /\ e.outcome = "response_ok" <=> ~e.realFailed
              /\ e.realFailed =>
                    e.outcome = IF Truthy(e.mockResponse)
                                THEN "mock_response" ELSE "threw"

\* outside forced mock mode, execute has fallen back to the mock after its real
\* call failed and handleFetch has answered a failed fetch with the mock response
C30_Witness ==
    /\ ~api.FORCE_MOCK_MODE
    /\ \E e \in Completed("execute") : e.realFailed /\ e.outcome = "mock"
    /\ \E e \in Completed("handleFetch") :
           e.realFailed /\ e.mockResponse = "truthy" /\ e.outcome = "mock_response"

====
